---- MODULE Spec2Model ----
(***************************************************************************)
(* rlex: regex -> NFA (Thompson) -> DFA (subset construction) -> minimized *)
(* DFA (partition refinement), and the Unicode character classes and       *)
(* split-point tables the regexes are classified with.                     *)
(*                                                                         *)
(* Rust Vec values are modelled as functions over 0..n-1 ("vectors") when  *)
(* the code indexes them, and as TLA+ sequences when it only iterates.     *)
(***************************************************************************)
EXTENDS Integers, Sequences, FiniteSets, TLC

\* ------------------------------------------------------------------ bounds
\* number of equivalence-class indices an atom may use (0..NumClasses-1)
NumClasses == 2
\* total number of regex nodes folded by Builder::build in one run
MaxNodes == 4
\* largest number of children of one Alt / Concat node
MaxChildren == 3
\* longest input word the language comparisons look at
MaxWordLen == 4
\* scalar values '\0' ..= '\u{10FFFF}' are scaled down to 0 .. MaxChar
MaxChar == 3
\* longest list of ranges given to from_sorted / From<Vec<UnicodeCharRange>>
MaxRanges == 3
\* number of atoms in all the rules of one LexemeDef together
MaxAtoms == 2

\* NFAInput::EPSILON (NFAInput(None)); Some(x) is modelled by x itself.
\* None orders before every Some(x), as -1 does before every x >= 0.
EPSILON == -1

ClassIdx == 0 .. (NumClasses - 1)
\* the index sets an atom is given: none, one class, or every class
AtomChoices == {{}} \cup {{c} : c \in ClassIdx} \cup {ClassIdx}

\* ------------------------------------------------------------ vec helpers
VecLen(v) == Cardinality(DOMAIN v)
EmptyVec == [i \in {} |-> 0]
VecPush(v, x) == [i \in 0 .. VecLen(v) |-> IF i < VecLen(v) THEN v[i] ELSE x]
VecSwap(v, i, j) == [v EXCEPT ![i] = v[j], ![j] = v[i]]

SeqRange(q) == {q[i] : i \in 1 .. Len(q)}

SetMin(S) == CHOOSE x \in S : \A y \in S : x <= y
SetMax(S) == CHOOSE x \in S : \A y \in S : y <= x

\* ascending iteration of a BTreeSet of integers
RECURSIVE SortedSeq(_)
SortedSeq(S) == IF S = {} THEN <<>>
                ELSE <<SetMin(S)>> \o SortedSeq(S \ {SetMin(S)})

\* every ordering of a finite set (the iteration orders a HashMap may have)
RECURSIVE Orderings(_)
Orderings(S) == IF S = {} THEN {<<>>}
                ELSE UNION {{<<x>> \o o : o \in Orderings(S \ {x})} : x \in S}

\* ------------------------------------------------------------- regex AST
\* RegOp<A, R>: one record shape for the five variants.
Atom(S) == [op |-> "Atom", cls |-> S, rs |-> <<>>]
Alt(rs) == [op |-> "Alt", cls |-> {}, rs |-> rs]
Concat(rs) == [op |-> "Concat", cls |-> {}, rs |-> rs]
Some(r) == [op |-> "Some", cls |-> {}, rs |-> <<r>>]
Optional(r) == [op |-> "Optional", cls |-> {}, rs |-> <<r>>]

RECURSIVE RegSize(_)
RECURSIVE RegSizeSum(_)
RegSize(r) == 1 + RegSizeSum(r.rs)
RegSizeSum(rs) == IF rs = <<>> THEN 0 ELSE RegSize(Head(rs)) + RegSizeSum(Tail(rs))

VARIABLES
    pc,                    \* position in the pipeline
    next_available_state,  \* Builder.next_available_state
    transitions,           \* Builder.transitions
    stack,                 \* folded children waiting for their parent
    dfa,                   \* result of Builder::finish
    pending,               \* minimize: VecDeque<Part>
    resulting,             \* minimize: Partitions
    cur,                   \* minimize: the set popped from pending
    ci,                    \* minimize: index into input_set
    mindfa,                \* result of DFA::minimize
    tagged_states,         \* gen_dfa: HashMap<DFAState, Tag>
    acc_class,             \* gen_dfa: the DFA states of every tagged NFA state
    errors,                \* gen_dfa: the diagnostics combined into the Err
    chars,                 \* gen_dfa: the argument chars
    cpc,                   \* position in the character-class stage
    rules,                 \* RootDef::try_from: the lowered rules
    split_points,          \* RootDef.split_points / classify_chars().0
    lexemes,               \* the classified regex of every rule
    ctor,                  \* the UnicodeCharClass constructor called directly
    given,                 \* its argument
    made,                  \* the class it returned
    spc,                   \* position in the syntax stage
    syn,                   \* parsed items waiting for their parent
    nnodes,                \* the Repeat, Concat and Alt nodes parsed so far
    body,                  \* LexemeDef.body
    lowered,               \* what RegEx::try_from or RootDef::try_from returned
    ptn,                   \* a Partitions used on its own
    prev,                  \* the same before the last call
    pivot,                 \* the argument of the last refine_with
    formed,                \* what the last refine_with returned
    last_call,             \* the method called last
    ncalls,                \* the calls made on it since new
    printed,               \* a regex and the text Display gave for it
    ring,                  \* a RingBuffer: data, front, current, anchor
    fifo,                  \* the characters pushed and not yet popped
    ret,                   \* what the last call on the buffer returned
    overflow_checks,       \* whether the build checks usize arithmetic
    overrun,               \* whether pop was called on the empty buffer
    nested,                \* whether a scope was opened further on in another
    scopes,                \* the AnchorBuffers alive, the innermost last
    iter_stream,           \* an IterStream: raw_iter and buffer
    yielded,               \* what the last call on the stream returned
    upcoming,              \* the items the stream held before that call
    source,                \* the lexemes of the file given to the layout pass
    augmented,             \* an AugmentedLexemeIterator over them
    laid,                  \* what its last next() returned and did
    phantoms,              \* the phantom braces emitted: opened, closed
    scanner,               \* a Scanner: input, location, diagnostics
    attempt,               \* the last call of anchored: before, f's doing, result
    many_loop              \* the call of many under way

genVars == <<tagged_states, acc_class, errors, chars>>
autoVars == <<pc, next_available_state, transitions, stack, dfa,
              pending, resulting, cur, ci, mindfa, genVars>>
classVars == <<cpc, rules, split_points, lexemes, ctor, given, made>>
synVars == <<spc, syn, nnodes, body, lowered>>
partVars == <<ptn, prev, pivot, formed, last_call, ncalls>>
fmtVars == <<printed>>
bufVars == <<ring, fifo, ret, overflow_checks, overrun, nested, scopes>>
streamVars == <<iter_stream, yielded, upcoming>>
layoutVars == <<source, augmented, laid, phantoms>>
scanVars == <<scanner, attempt, many_loop>>
exceptBuf == <<streamVars, layoutVars, scanVars>>
exceptStream == <<bufVars, layoutVars, scanVars>>
exceptLayout == <<bufVars, streamVars, scanVars>>
exceptScan == <<bufVars, streamVars, layoutVars>>
ioVars == <<bufVars, streamVars, layoutVars, scanVars>>
vars == <<autoVars, classVars, synVars, partVars, fmtVars, ioVars>>

\* -------------------------------------------------------------- Builder
Edge(s, t, a) == [departure |-> s, destination |-> t, input |-> a]

\* A fragment as the fold holds it: the NFA { start, accepted } together
\* with the regex it was folded from.
Frag(s, t, reg) == [start |-> s, accepted |-> t, regex |-> reg]

\* Each Builder method maps the builder (n = next_available_state,
\* T = transitions) to the new builder and the returned NFA.  new_nfa takes
\* s = n and t = n + 1 from Builder::state; the arcs new_arc asserts to be
\* new always are, because s or t is fresh.
Built(n, T, s, t) == [next |-> n, trans |-> T, start |-> s, accepted |-> t]

atom(n, T, xs) ==
    Built(n + 2, T \cup {Edge(n, n + 1, x) : x \in xs}, n, n + 1)

alt(n, T, ms) ==
    Built(n + 2,
          T \cup {Edge(n, ms[i].start, EPSILON) : i \in 1 .. Len(ms)}
            \cup {Edge(ms[i].accepted, n + 1, EPSILON) : i \in 1 .. Len(ms)},
          n, n + 1)

\* last = s, then last = m.accepted after each child
ConcatLast(n, ms, i) == IF i = 0 THEN n ELSE ms[i].accepted

\* a concat whose arc from the last child to t is missing
concat_open(n, T, ms) ==
    Built(n + 2,
          T \cup {Edge(ConcatLast(n, ms, i - 1), ms[i].start, EPSILON) : i \in 1 .. Len(ms)},
          n, n + 1)

concat(n, T, ms) ==
    Built(n + 2,
          T \cup {Edge(ConcatLast(n, ms, i - 1), ms[i].start, EPSILON) : i \in 1 .. Len(ms)}
            \cup {Edge(ConcatLast(n, ms, Len(ms)), n + 1, EPSILON)},
          n, n + 1)

\* a some whose added arc skips the child instead of repeating it
some_skipping(n, T, m) ==
    Built(n, T \cup {Edge(m.start, m.accepted, EPSILON)}, m.start, m.accepted)

some(n, T, m) ==
    Built(n, T \cup {Edge(m.accepted, m.start, EPSILON)}, m.start, m.accepted)

optional(n, T, m) ==
    Built(n + 2,
          T \cup {Edge(n, n + 1, EPSILON), Edge(n, m.start, EPSILON),
                  Edge(m.accepted, n + 1, EPSILON)},
          n, n + 1)

\* --------------------------------------------------- subset construction
Reverse(q) == [i \in 1 .. Len(q) |-> q[Len(q) + 1 - i]]

\* Determiner::trans_once: the range (s, a, 0) ..= (s, a, MAX), ascending
trans_once(T, s, a) ==
    SortedSeq({e.destination : e \in {x \in T : x.departure = s /\ x.input = a}})

\* Determiner::epsilon_closure: to_insert is the VecDeque, res the BTreeSet
RECURSIVE epsilon_closure_loop(_, _, _)
epsilon_closure_loop(T, to_insert, res) ==
    IF to_insert = <<>> THEN res
    ELSE LET x == Head(to_insert)
         IN  IF x \notin res
             THEN epsilon_closure_loop(T,
                      Reverse(trans_once(T, x, EPSILON)) \o Tail(to_insert),
                      res \cup {x})
             ELSE epsilon_closure_loop(T, Tail(to_insert), res)

epsilon_closure(T, s) == epsilon_closure_loop(T, s, {})

epsilon_closure_single(T, x) == epsilon_closure(T, <<x>>)

RECURSIVE FlatMapTransOnce(_, _, _)
FlatMapTransOnce(T, xs, a) ==
    IF xs = <<>> THEN <<>>
    ELSE trans_once(T, Head(xs), a) \o FlatMapTransOnce(T, Tail(xs), a)

\* a transitioned whose target states are not epsilon-closed
transitioned_unclosed(T, s, a) == SeqRange(FlatMapTransOnce(T, SortedSeq(s), a))

\* Determiner::transitioned
transitioned(T, s, a) == epsilon_closure(T, FlatMapTransOnce(T, SortedSeq(s), a))

\* StateCollector: states[i] is the NFA state set of DFAState i - 1
StateIdOf(states, s) == (CHOOSE i \in 1 .. Len(states) : states[i] = s) - 1

add_or_get_state_set(c, s) ==
    IF \E i \in 1 .. Len(c.states) : c.states[i] = s
    THEN [c EXCEPT !.last = StateIdOf(c.states, s)]
    ELSE [c EXCEPT !.states = Append(c.states, s),
                   !.states_to_process = Append(c.states_to_process, s),
                   !.last = Len(c.states)]

\* the body of `for a in self.input_set`
RECURSIVE determine_inputs(_, _, _, _, _)
determine_inputs(T, inputs, s, ns, c) ==
    IF inputs = <<>> THEN c
    ELSE LET a == Head(inputs)
             t == transitioned(T, s, a)
         IN  IF t # {}
             THEN LET c2 == add_or_get_state_set(c, t)
                  IN  determine_inputs(T, Tail(inputs), s, ns,
                          [c2 EXCEPT !.new_transitions = @ \cup {<<ns, a, c2.last>>}])
             ELSE determine_inputs(T, Tail(inputs), s, ns, c)

\* the `while !states.states_to_process.is_empty()` loop
RECURSIVE determine_loop(_, _, _)
determine_loop(T, inputs, c) ==
    IF c.states_to_process = <<>> THEN c
    ELSE LET s == Head(c.states_to_process)
             ns == StateIdOf(c.states, s)
         IN  determine_loop(T, inputs,
                 determine_inputs(T, inputs, s, ns,
                     [c EXCEPT !.states_to_process = Tail(@)]))

determine(T, inputs, m) ==
    LET c0 == [states |-> <<>>, states_to_process |-> <<>>,
               new_transitions |-> {}, last |-> 0]
        start == epsilon_closure_single(T, m.start)
        c == determine_loop(T, inputs, add_or_get_state_set(c0, start))
    IN  [state_count |-> Len(c.states),
         input_set |-> inputs,
         transitions |-> c.new_transitions,
         accepted_states |-> {i - 1 : i \in {j \in 1 .. Len(c.states) : m.accepted \in c.states[j]}}]

\* Builder::finish: input_set is the sorted, deduplicated non-epsilon labels
finish(T, m) ==
    determine(T, SortedSeq({e.input : e \in T} \ {EPSILON}), m)

\* ---------------------------------------------------- partition refinement
Part(s, e) == [start |-> s, end |-> e]
PartLen(p) == p.end - p.start
PartIsEmpty(p) == p.start = p.end
\* Part::is_subset_of
is_subset_of(p, other) == p.start >= other.start /\ p.end <= other.end

\* Partitions::new
new(n) ==
    [back_buffer |-> [i \in 0 .. n - 1 |-> i],
     parent_set |-> [i \in 0 .. n - 1 |-> 0],
     positions |-> [i \in 0 .. n - 1 |-> i],
     partitions |-> [i \in {0} |-> Part(0, n)]]

\* Partitions::set_iter: the elements of set s in buffer order
set_iter(P, s) ==
    [i \in 1 .. PartLen(P.partitions[s]) |-> P.back_buffer[P.partitions[s].start + i - 1]]

\* the elements at back_buffer[p.as_range()]
BufferSlice(P, p) == {P.back_buffer[i] : i \in p.start .. (p.end - 1)}

\* refine_with, first loop: move every pivot element x to the end of its
\* set and shrink the set.  A carries the partitions (p), the HashMap
\* `affected` (as pairs <<set, end before the call>>) and whether
\* assert_eq!(self.back_buffer[pos], x) held so far.
RECURSIVE refine_move(_, _)
refine_move(A, s) ==
    IF s = <<>> THEN A
    ELSE LET x == Head(s)
             P == A.p
             parent == P.parent_set[x]
             old_end == P.partitions[parent].end
             rng_end == old_end - 1
             pos == P.positions[x]
             element_end == P.back_buffer[rng_end]
         IN  IF P.back_buffer[pos] # x
             THEN [A EXCEPT !.ok = FALSE]
             ELSE refine_move(
                     [p |-> [P EXCEPT !.partitions[parent].end = rng_end,
                                      !.back_buffer = VecSwap(@, pos, rng_end),
                                      !.positions = VecSwap(@, x, element_end)],
                      affected |-> IF \E e \in A.affected : e[1] = parent
                                   THEN A.affected
                                   ELSE A.affected \cup {<<parent, old_end>>},
                      ok |-> A.ok],
                     Tail(s))

\* the larger of the two pieces instead
formed_of_larger(a, a_rng, new_a, new_a_rng) ==
    IF PartLen(a_rng) > PartLen(new_a_rng) THEN a ELSE new_a

\* refine_with, second loop: the id recorded in newly_formed for the pair
\* (a, new_a)
formed_of(a, a_rng, new_a, new_a_rng) ==
    IF PartLen(a_rng) > PartLen(new_a_rng) THEN new_a ELSE a

\* refine_with, second loop: `for (a, new_a_end) in affected`, visited in
\* the order `order` of the affected sets.
RECURSIVE refine_form(_, _, _, _)
refine_form(P, affected, order, newly_formed) ==
    IF order = <<>> THEN [p |-> P, newly_formed |-> newly_formed]
    ELSE LET a == Head(order)
             new_a_end == (CHOOSE e \in affected : e[1] = a)[2]
             new_a == VecLen(P.partitions)
             new_a_rng == Part(P.partitions[a].end, new_a_end)
             a_rng == P.partitions[a]
         IN  refine_form(
                 [P EXCEPT !.partitions = VecPush(@, new_a_rng),
                           !.parent_set = [e \in DOMAIN @ |->
                               IF e \in BufferSlice(P, new_a_rng)
                               THEN new_a ELSE @[e]]],
                 affected, Tail(order),
                 Append(newly_formed, formed_of(a, a_rng, new_a, new_a_rng)))

\* the sets a pivot touches: the keys of `affected`
AffectedSets(P, s) == {P.parent_set[s[i]] : i \in 1 .. Len(s)}

\* a pivot that splits nothing
refine_with_nothing(P, s, order) == [p |-> P, newly_formed |-> <<>>, ok |-> TRUE]

\* Partitions::refine_with(s), the HashMap being iterated in `order`
refine_with(P, s, order) ==
    LET A == refine_move([p |-> P, affected |-> {}, ok |-> TRUE], s)
    IN  IF A.ok
        THEN LET R == refine_form(A.p, A.affected, order, <<>>)
             IN  [p |-> R.p, newly_formed |-> R.newly_formed, ok |-> TRUE]
        ELSE [p |-> A.p, newly_formed |-> <<>>, ok |-> FALSE]

\* Partitions::simplify: the `for k in 0..n` loop, then the parent update.
\* The vector of parts keeps its length.
RECURSIVE simplify_loop(_, _, _, _)
simplify_loop(parts, idx_map, k, next_to_write) ==
    IF k = VecLen(parts) THEN [partitions |-> parts, idx_map |-> idx_map]
    ELSE IF PartIsEmpty(parts[k])
         THEN simplify_loop(parts, idx_map, k + 1, next_to_write)
         ELSE simplify_loop(VecSwap(parts, k, next_to_write),
                            [idx_map EXCEPT ![k] = next_to_write],
                            k + 1, next_to_write + 1)

simplify(P) ==
    LET R == simplify_loop(P.partitions, [k \in DOMAIN P.partitions |-> 0], 0, 0)
    IN  [P EXCEPT !.partitions = R.partitions,
                  !.parent_set = [e \in DOMAIN @ |-> R.idx_map[@[e]]]]

\* a promote_to_head that swaps the parts and leaves parent_set alone
promote_to_head_parts_only(P, n) == [P EXCEPT !.partitions = VecSwap(@, 0, n)]

\* Partitions::promote_to_head
promote_to_head(P, n) ==
    LET p0 == P.partitions[0]
        pn == P.partitions[n]
    IN  [P EXCEPT !.partitions = VecSwap(@, 0, n),
                  !.parent_set = [e \in DOMAIN @ |->
                      IF e \in BufferSlice(P, pn) THEN 0
                      ELSE IF e \in BufferSlice(P, p0) THEN n ELSE @[e]]]

\* Partitions::set_count
set_count(P) == VecLen(P.partitions)

NoDFA == [state_count |-> 0, input_set |-> <<>>, transitions |-> {},
          accepted_states |-> {}]
NoPartitions == [back_buffer |-> EmptyVec, parent_set |-> EmptyVec,
                 positions |-> EmptyVec, partitions |-> EmptyVec]

StackRegs == [i \in 1 .. Len(stack) |-> stack[i].regex]
StackSize == RegSizeSum(StackRegs)

AutoInit ==
    /\ pc = "build"
    /\ next_available_state = 0
    /\ transitions = {}
    /\ stack = <<>>
    /\ dfa = NoDFA
    /\ pending = <<>>
    /\ resulting = NoPartitions
    /\ cur = -1
    /\ ci = 0
    /\ mindfa = NoDFA
    /\ tagged_states = EmptyVec
    /\ acc_class = <<>>
    /\ errors = <<>>
    /\ chars = <<>>

\* ------------------------------------------------- ast/char_class.rs
Chars == 0 .. MaxChar
\* stands for 0x10FFFF + 1
CodeSpaceEnd == MaxChar + 1

\* struct UnicodeCharRange { begin, end }: begin included, end excluded
UnicodeCharRange(b, e) == [begin |-> b, end |-> e]
\* UnicodeCharRange::new(begin, end): both end points included
range_new(b, e) == UnicodeCharRange(b, e + 1)
from_raw(b, e) == UnicodeCharRange(b, e)
end_points(r) == <<r.begin, r.end>>

\* #[derive(Ord)]: by begin, then by end
RangeLe(x, y) == x.begin < y.begin \/ (x.begin = y.begin /\ x.end <= y.end)

RemoveAt(q, i) == SubSeq(q, 1, i - 1) \o SubSeq(q, i + 1, Len(q))

\* intervals.sort()
RECURSIVE sort(_)
sort(q) ==
    IF q = <<>> THEN <<>>
    ELSE LET m == CHOOSE i \in 1 .. Len(q) : \A j \in 1 .. Len(q) : RangeLe(q[i], q[j])
         IN  <<q[m]>> \o sort(RemoveAt(q, m))

Max(x, y) == IF x >= y THEN x ELSE y

\* a merge test that lets touching ranges stand
overlaps_only(x, y) == x.end > y.begin

\* `intervals[last].end >= intervals[i].begin`
touches(x, y) == x.end >= y.begin

empty == <<>>
from_sorted(intervals) == intervals
from_char(c) == <<range_new(c, c)>>
from_range(r) == <<r>>

\* the loop of From<Vec<UnicodeCharRange>>, written in place; intervals is
\* 1-based here, so `last` is next_to_write and the slot written is
\* next_to_write + 1; the final truncate(next_to_write) is the SubSeq
RECURSIVE from_vec_loop(_, _, _)
from_vec_loop(intervals, i, next_to_write) ==
    IF i > Len(intervals) THEN SubSeq(intervals, 1, next_to_write)
    ELSE LET last == next_to_write
         IN  IF touches(intervals[last], intervals[i])
             THEN from_vec_loop(
                      [intervals EXCEPT ![last] =
                          UnicodeCharRange(intervals[last].begin,
                                           Max(intervals[last].end, intervals[i].end))],
                      i + 1, next_to_write)
             ELSE from_vec_loop([intervals EXCEPT ![next_to_write + 1] = intervals[i]],
                                i + 1, next_to_write + 1)

from_vec(v) ==
    LET intervals == sort(v)
    IN  IF intervals = <<>> THEN intervals ELSE from_vec_loop(intervals, 2, 1)

\* ---------------------------------------------------- ast.rs: lowering
\* A row of a Unicode table: sorted inclusive pairs (l, r) that neither
\* overlap nor touch; every non-empty set of scalar values has one such row.
RowOf(S) ==
    LET starts == SortedSeq({c \in S : c - 1 \notin S})
    IN  [i \in 1 .. Len(starts) |->
            <<starts[i],
              SetMin({e \in S : e >= starts[i] /\ e + 1 \notin S})>>]

TableRows == {RowOf(S) : S \in (SUBSET Chars) \ {{}}}

\* make_char_class: from_sorted over the row, each (l, r) as from_raw(l, r + 1)
make_char_class(row) ==
    from_sorted([i \in 1 .. Len(row) |-> from_raw(row[i][1], row[i][2] + 1)])

\* From<&LitChar>
lower_char(c) == from_char(c)
\* From<&CharRange>: UnicodeCharRange::new(r.begin.value(), r.end.value())
lower_range(b, e) == from_range(range_new(b, e))

\* ------------------------------------ ast.rs: split points, classification
\* Classification maps every atom on its own (fmap) and collect_split_points
\* visits every atom (for_each); the operators around the atoms play no part,
\* so a regex is kept here as the sequence of its atoms, left to right.
ToVec(q) == [i \in 0 .. (Len(q) - 1) |-> q[i + 1]]

collect_split_points(reg, res) ==
    res \cup {0, CodeSpaceEnd}
        \cup UNION {UNION {SeqRange(end_points(reg[i][j])) : j \in 1 .. Len(reg[i])} :
                        i \in 1 .. Len(reg)}

\* split_points.binary_search(&x).unwrap(): split_points is sorted and has
\* no duplicates, so the index found is the only one
binary_search(v, x) == CHOOSE i \in DOMAIN v : v[i] = x

\* a span that takes the right end in as well
index_span_inclusive(l, r) == l .. r

\* `for k in l..r`
index_span(l, r) == l .. (r - 1)

classify_atom(cls, sp) ==
    SortedSeq(UNION {index_span(binary_search(sp, cls[j].begin),
                                binary_search(sp, cls[j].end)) : j \in 1 .. Len(cls)})

classify_chars_with(reg, sp) == [i \in 1 .. Len(reg) |-> classify_atom(reg[i], sp)]

classify_chars(reg) ==
    LET sp == ToVec(SortedSeq(collect_split_points(reg, {})))
    IN  [split_points |-> sp, regex |-> classify_chars_with(reg, sp)]

\* `for (_, _, reg) in &rules { reg.collect_split_points(&mut split_points) }`
RECURSIVE collect_all(_, _)
collect_all(rs, res) ==
    IF rs = <<>> THEN res
    ELSE collect_all(Tail(rs), collect_split_points(Head(rs), res))

ClassInit ==
    /\ cpc = "lower"
    /\ rules = <<>>
    /\ split_points = EmptyVec
    /\ lexemes = <<>>
    /\ ctor = "none"
    /\ given = <<>>
    /\ made = <<>>

\* ------------------------------------------------ syntax.rs: parsed rules
MaxSynNodes == 6
MaxItems == 2
MaxRules == 2

\* class names as the characters of the identifier
NameWs == <<"W", "_", "s">>
NameNo == <<"N", "o">>
NameIsNo == <<"i", "s", "N", "_", "o">>
ClassNames == {NameWs, NameNo, NameIsNo}

\* Atom, Repeat, Concat and Alt (= Expr) of syntax.rs
NoExpr == [variants |-> <<>>]
AtomOf(kind, cs, n, e) == [kind |-> kind, cs |-> cs, class_name |-> n, expr |-> e]
AtomChar(c) == AtomOf("Char", <<c>>, <<>>, NoExpr)
AtomString(cs) == AtomOf("String", cs, <<>>, NoExpr)
AtomRange(b, e) == AtomOf("Range", <<b, e>>, <<>>, NoExpr)
AtomClass(n) == AtomOf("Class", <<>>, n, NoExpr)
AtomParen(e) == AtomOf("Paren", <<>>, <<>>, e)
Repeat(k, a) == [rep |-> k, atom |-> a]
ConcatOf(items) == [items |-> items]
Expr(variants) == [variants |-> variants]

\* ConditionTrans, Option<StartCondition>, Rule and WithCondition
Simple(a) == [begin |-> a, trans |-> FALSE, end |-> ""]
Trans(a, b) == [begin |-> a, trans |-> TRUE, end |-> b]
NoStartCondition == [some |-> FALSE, condition |-> <<>>]
StartCondition(cs) == [some |-> TRUE, condition |-> cs]
Rule(name, e) == [name |-> name, body |-> e]
WithCondition(sc, rs) == [start_condition |-> sc, body |-> rs]

\* what Repeat::parse returns for an atom without parentheses, and the
\* condition lists StartCondition::parse returns, as far as they are drawn
LeafRepeats ==
    {Repeat("Once", AtomChar(0)), Repeat("Once", AtomClass(NameWs)),
     Repeat("Optional", AtomClass(NameNo)), Repeat("Some", AtomClass(NameIsNo))}
RepeatKinds == {"Once", "Many", "Some", "Optional"}
StartConditions ==
    {NoStartCondition,
     StartCondition(<<Simple("start")>>),
     StartCondition(<<Simple("b")>>),
     StartCondition(<<Trans("start", "b")>>),
     StartCondition(<<Simple("b"), Trans("start", "start")>>)}

\* ----------------------------------------------- ast.rs: RegEx::try_from
\* a Result, or the panic of a failed assertion
Panicked == [panic |-> TRUE, ok |-> FALSE, val |-> <<>>, errs |-> <<>>]
Ok(v) == [panic |-> FALSE, ok |-> TRUE, val |-> v, errs |-> <<>>]
Err(es) == [panic |-> FALSE, ok |-> FALSE, val |-> <<>>, errs |-> es]

\* collect_vec: the fold visits every item; errors are combined in order
RECURSIVE collect_vec_fold(_, _)
collect_vec_fold(r, xs) ==
    IF xs = <<>> THEN r
    ELSE LET x == Head(xs)
         IN  IF x.panic THEN Panicked
             ELSE collect_vec_fold(
                      IF r.ok /\ x.ok THEN Ok(Append(r.val, x.val))
                      ELSE IF r.ok THEN x
                      ELSE IF x.ok THEN r
                      ELSE Err(r.errs \o x.errs),
                      Tail(xs))

\* a collect_vec that keeps the first error only
collect_vec_first(xs) ==
    LET r == collect_vec_fold(Ok(<<>>), xs)
    IN  IF r.panic \/ r.ok THEN r ELSE Err(<<r.errs[1]>>)

collect_vec(xs) == collect_vec_fold(Ok(<<>>), xs)

\* ucd_util::symbolic_name_normalize (UAX44-LM3): an initial "is" is
\* dropped, then blanks, underscores and hyphens, letters become lower case;
\* "isc" stays
LowerCase(ch) ==
    CASE ch = "W" -> "w" [] ch = "N" -> "n" [] ch = "I" -> "i" [] ch = "S" -> "s"
      [] OTHER -> ch

RECURSIVE normalize_rest(_)
normalize_rest(n) ==
    IF n = <<>> THEN <<>>
    ELSE IF Head(n) \in {" ", "_", "-"} THEN normalize_rest(Tail(n))
    ELSE <<LowerCase(Head(n))>> \o normalize_rest(Tail(n))

symbolic_name_normalize(n) ==
    LET starts_with_is == Len(n) >= 2 /\ n[1] \in {"i", "I"} /\ n[2] \in {"s", "S"}
        r == normalize_rest(IF starts_with_is THEN Tail(Tail(n)) ELSE n)
    IN  IF starts_with_is /\ r = <<"c">> THEN <<"i", "s", "c">> ELSE r

\* unicode_tables: the normalized names and the rows of their properties
PROPERTY_NAMES == {<<"w", "s">>}
GEN_CATS == {<<"l", "u">>}
BY_NAME == [n \in PROPERTY_NAMES \cup GEN_CATS |->
               IF n \in PROPERTY_NAMES THEN RowOf({0, 2}) ELSE RowOf({1})]

\* TryFrom<&CharClass>
class_try_from(name) ==
    LET cls_str == symbolic_name_normalize(name)
    IN  IF cls_str \in PROPERTY_NAMES \cup GEN_CATS
        THEN Ok(make_char_class(BY_NAME[cls_str]))
        ELSE Err(<<[original |-> name, normalized |-> cls_str]>>)

\* From<&LitStr>: one atom per character, a Concat unless there is just one
lower_string(cs) ==
    LET xs == [i \in 1 .. Len(cs) |-> Atom(lower_char(cs[i]))]
    IN  IF Len(xs) = 1 THEN xs[1] ELSE Concat(xs)

\* Box::new(x.try_into()?) under an operator
Wrapped(r, k) ==
    IF ~r.ok THEN r
    ELSE Ok(CASE k = "Once" -> r.val
              [] k = "Optional" -> Optional(r.val)
              [] k = "Some" -> Some(r.val)
              [] k = "Many" -> Optional(Some(r.val)))

\* Result::map with RegOp::Alt, RegOp::Concat and RegOp::Atom
map_alt(r) == IF r.ok THEN Ok(Alt(r.val)) ELSE r
map_concat(r) == IF r.ok THEN Ok(Concat(r.val)) ELSE r
map_atom(r) == IF r.ok THEN Ok(Atom(r.val)) ELSE r

RECURSIVE expr_try_from(_)
RECURSIVE concat_try_from(_)
RECURSIVE repeat_try_from(_)
RECURSIVE atom_try_from(_)
\* TryFrom<&Expr>
expr_try_from(e) ==
    IF Len(e.variants) = 0 THEN Ok(Atom(empty))
    ELSE IF Len(e.variants) = 1 THEN concat_try_from(e.variants[1])
    ELSE map_alt(collect_vec([i \in 1 .. Len(e.variants) |->
                                 concat_try_from(e.variants[i])]))

\* TryFrom<&Concat>: the assertion fails on a Concat without items
concat_try_from(c) ==
    IF Len(c.items) = 0 THEN Panicked
    ELSE IF Len(c.items) = 1 THEN repeat_try_from(c.items[1])
    ELSE map_concat(collect_vec([i \in 1 .. Len(c.items) |->
                                    repeat_try_from(c.items[i])]))

\* TryFrom<&Repeat>
repeat_try_from(x) == Wrapped(atom_try_from(x.atom), x.rep)

\* TryFrom<&Atom>
atom_try_from(a) ==
    CASE a.kind = "Char" -> Ok(Atom(lower_char(a.cs[1])))
      [] a.kind = "String" -> Ok(lower_string(a.cs))
      [] a.kind = "Range" -> Ok(Atom(lower_range(a.cs[1], a.cs[2])))
      [] a.kind = "Class" -> map_atom(class_try_from(a.class_name))
      [] a.kind = "Paren" -> expr_try_from(a.expr)

\* ------------------------------------------------ ast.rs: RootDef::try_from
\* SCIdent: None is the default condition; eq compares the names, None
\* being "start"; hash feeds the same string
DEFAULT == [some |-> FALSE, id |-> ""]
SCIdent(x) == [some |-> TRUE, id |-> x]
sc_str(k) == IF k.some THEN k.id ELSE "start"
sc_eq(k1, k2) == sc_str(k1) = sc_str(k2)
\* a hash that keeps the default condition apart from every name
sc_hash_sentinel(k) == IF k.some THEN k.id ELSE ""

sc_hash(k) == IF k.some THEN k.id ELSE "start"

\* the pairs (SCIdent, Option<Ident>) of a WithCondition
start_conditions(wc) ==
    IF ~wc.start_condition.some THEN <<[sc |-> DEFAULT, target |-> ""]>>
    ELSE [i \in 1 .. Len(wc.start_condition.condition) |->
             LET t == wc.start_condition.condition[i]
             IN  [sc |-> SCIdent(t.begin), target |-> IF t.trans THEN t.end ELSE ""]]

\* match (rules.as_mut(), RegEx::try_from(&r.body))
rules_match(r, x, sc, name) ==
    IF r.panic \/ x.panic THEN Panicked
    ELSE IF r.ok /\ x.ok THEN Ok(Append(r.val, [sc |-> sc, name |-> name, reg |-> x.val]))
    ELSE IF r.ok THEN x
    ELSE IF x.ok THEN r
    ELSE Err(r.errs \o x.errs)

\* the first loop: every rule of every block is lowered
RECURSIVE rules_of_block(_, _, _)
rules_of_block(r, sc, rs) ==
    IF rs = <<>> \/ r.panic THEN r
    ELSE rules_of_block(rules_match(r, expr_try_from(Head(rs).body), sc, Head(rs).name),
                        sc, Tail(rs))

RECURSIVE rules_of_body(_, _)
rules_of_body(r, d) ==
    IF d = <<>> \/ r.panic THEN r
    ELSE rules_of_body(rules_of_block(r, start_conditions(Head(d)), Head(d).body), Tail(d))

\* the atoms of a regex in the order of for_each, and fmap over them
RECURSIVE AtomsOf(_)
RECURSIVE AtomsOfAll(_)
AtomsOf(r) == IF r.op = "Atom" THEN <<r.cls>> ELSE AtomsOfAll(r.rs)
AtomsOfAll(rs) == IF rs = <<>> THEN <<>> ELSE AtomsOf(Head(rs)) \o AtomsOfAll(Tail(rs))

RECURSIVE classify_tree(_, _)
classify_tree(r, sp) ==
    IF r.op = "Atom" THEN Atom(classify_atom(r.cls, sp))
    ELSE [r EXCEPT !.rs = [i \in 1 .. Len(r.rs) |-> classify_tree(r.rs[i], sp)]]

\* lexemes.entry(s).or_insert_with(Vec::new).push(l): the entry of the key
\* with the hash of s that is equal to s, or a new one
entry_push(lex, s, l) ==
    LET found == {i \in 1 .. Len(lex) :
                     sc_hash(lex[i].key) = sc_hash(s) /\ sc_eq(lex[i].key, s)}
    IN  IF found = {} THEN Append(lex, [key |-> s, value |-> <<l>>])
        ELSE [lex EXCEPT ![SetMin(found)].value = Append(@, l)]

RECURSIVE push_conditions(_, _, _, _)
push_conditions(lex, sc, name, reg) ==
    IF sc = <<>> THEN lex
    ELSE push_conditions(
             entry_push(lex, Head(sc).sc,
                        [lexeme_type |-> name,
                         target_start_condition |-> Head(sc).target,
                         lexeme_regex |-> reg]),
             Tail(sc), name, reg)

RECURSIVE aggregate(_, _, _)
aggregate(lex, rs, sp) ==
    IF rs = <<>> THEN lex
    ELSE aggregate(push_conditions(lex, Head(rs).sc, Head(rs).name,
                                   classify_tree(Head(rs).reg, sp)),
                   Tail(rs), sp)

\* the split points of all rules, then the second loop
root_def_split_points(rs) ==
    ToVec(SortedSeq(collect_all([i \in 1 .. Len(rs) |-> AtomsOf(rs[i].reg)], {})))
root_def_with(rs, sp) == Ok([lexemes |-> aggregate(<<>>, rs, sp), split_points |-> sp])
root_def_of(r) ==
    IF ~r.ok THEN [r EXCEPT !.val = <<>>]
    ELSE root_def_with(r.val, root_def_split_points(r.val))

root_def_try_from(d) == root_def_of(rules_of_body(Ok(<<>>), d))

SynInit ==
    /\ spc = "parse"
    /\ syn = <<>>
    /\ nnodes = 0
    /\ body = <<>>
    /\ lowered = [of |-> "none", res |-> Ok(<<>>)]

\* ------------------------------------------------- op.rs: Display of RegEx
\* The text is the sequence of the pieces written to the Formatter.
Tok(s) == [text |-> s, atom |-> {}]
AtomTok(a) == [text |-> "{}", atom |-> a]

\* the precedence each operator passes to its children
Level(r) == CASE r.op = "Alt" -> 0
              [] r.op = "Concat" -> 1
              [] r.op \in {"Some", "Optional"} -> 2
              [] OTHER -> 3

\* the `for x in xs` loop of sep_by over already printed items
RECURSIVE sep_rest(_, _)
sep_rest(ts, sep) ==
    IF ts = <<>> THEN <<>> ELSE <<Tok(sep)>> \o Head(ts) \o sep_rest(Tail(ts), sep)

\* Pretty for RegOp: pretty_fmt(f, n), with sep_by and postfix
RECURSIVE pretty_fmt(_, _)
pretty_fmt(r, n) ==
    LET sep_by(k, sep) ==
            IF r.rs = <<>> THEN <<>>
            ELSE LET ts == [i \in 1 .. Len(r.rs) |-> pretty_fmt(r.rs[i], k)]
                 IN  (IF k < n THEN <<Tok("(")>> ELSE <<>>)
                     \o Head(ts) \o sep_rest(Tail(ts), sep)
                     \o (IF k < n THEN <<Tok(")")>> ELSE <<>>)
        postfix(k, op) ==
            (IF k < n THEN <<Tok("(")>> ELSE <<>>)
            \o pretty_fmt(r.rs[1], k)
            \o (IF k < n THEN <<Tok(")")>> ELSE <<>>)
            \o <<Tok(op)>>
    IN  CASE r.op = "Atom" -> <<AtomTok(r.cls)>>
          [] r.op = "Alt" -> sep_by(0, " | ")
          [] r.op = "Concat" -> sep_by(1, " ")
          [] r.op = "Some" -> postfix(2, "+")
          [] r.op = "Optional" -> postfix(2, "?")

\* Display for RegEx: fmt
to_string(r) == pretty_fmt(r, 0)

FmtInit == printed = [of |-> Atom({}), text |-> <<>>]

PartInit ==
    /\ ptn = NoPartitions
    /\ prev = NoPartitions
    /\ pivot = <<>>
    /\ formed = <<>>
    /\ last_call = "none"
    /\ ncalls = 0

\* ------------------------------------------------ buffer.rs: RingBuffer
\* The growth unit of the buffer, 512 in the source, scaled down; the
\* default size is the same unit.  Characters are numbers, '\0' is 0, and
\* the k-th character of the input is k, so that the character pushed at
\* index i is i + 1.  Option values use -1 for None.
MINIMUM_BUFFER_GROWTH == 2
DEFAULT_BUFFER_SIZE == MINIMUM_BUFFER_GROWTH
NUL == 0
None == -1
Min(x, y) == IF x <= y THEN x ELSE y

round_to(x, n) == ((x + n - 1) \div n) * n
\* (whether the first is the shorter, the shorter, the longer)
min_max(a, b) == [shorter |-> a < b, min |-> Min(a, b), max |-> Max(a, b)]

\* vec!['\0'; n]
NulVec(n) == [i \in 0 .. n - 1 |-> NUL]
new_sized(n) ==
    [data |-> NulVec(round_to(n, MINIMUM_BUFFER_GROWTH)), front |-> 0, current |-> 0,
     anchor |-> None]

guard(b) == IF b.anchor = None THEN b.current ELSE Min(b.current, b.anchor)
at(b, n) == b.data[n % VecLen(b.data)]

\* the result of a call on the buffer: the buffer after it and the value
\* returned, or a panic
Done(b, v) == [ok |-> TRUE, ring |-> b, val |-> v]
Panic == [ok |-> FALSE, ring |-> new_sized(0), val |-> None]

\* dst[d0..d1].copy_from_slice(&src[s0..s1]): a range that is reversed or
\* out of bounds, or two ranges of different lengths, panic
copy_from_slice(dst, d0, d1, src, s0, s1) ==
    IF d0 <= d1 /\ d1 <= VecLen(dst) /\ s0 <= s1 /\ s1 <= VecLen(src) /\ d1 - d0 = s1 - s0
    THEN [ok |-> TRUE,
          data |-> [i \in DOMAIN dst |-> IF d0 <= i /\ i < d1 THEN src[s0 + (i - d0)] ELSE dst[i]]]
    ELSE [ok |-> FALSE, data |-> dst]

\* front - guard() is kept as an integer: a negative c stands for the usize
\* 2^64 + c that wrapping subtraction gives; min(count, x) is then x
count_min(c, x) == IF c < 0 THEN x ELSE Min(c, x)

\* (2) body: only one crosses the border
reserve_body(b, orig_start, start, mm, len, len2, data) ==
    IF mm.shorter
    THEN copy_from_slice(data, start + len, start + len2, b.data, 0, len2 - len)
    ELSE copy_from_slice(data, 0, len2 - len, b.data, orig_start + len, orig_start + len2)

\* (3) tail: both cross the border
reserve_tail(b, g, len2, data, sz) ==
    copy_from_slice(data, (g + len2) % sz, b.front % sz,
                    b.data, (g + len2) % VecLen(b.data), b.front % VecLen(b.data))

\* the copy of reserve_more into the new buffer of size sz; c is count
reserve_copy(b, g, c, sz) ==
    LET orig_sz == VecLen(b.data)
        orig_start == g % orig_sz
        start == g % sz
        mm == min_max(orig_sz - orig_start, sz - start)
        len == count_min(c, mm.min)
        len2 == count_min(c, mm.max)
        part1 == copy_from_slice(NulVec(sz), start, start + len,
                                 b.data, orig_start, orig_start + len)
        part2 == reserve_body(b, orig_start, start, mm, len, len2, part1.data)
        part3 == reserve_tail(b, g, len2, part2.data, sz)
    IN  IF ~part1.ok THEN Panic
        ELSE IF len = c THEN Done([b EXCEPT !.data = part1.data], None)
        ELSE IF ~part2.ok THEN Panic
        ELSE IF len2 = c THEN Done([b EXCEPT !.data = part2.data], None)
        ELSE IF ~part3.ok THEN Panic
        ELSE Done([b EXCEPT !.data = part3.data], None)

\* RingBuffer::reserve_more(n).  When guard() is above front the
\* subtraction underflows: with overflow checks it panics; without, count
\* is 2^64 + c and n + count wraps to n + c when that is not negative.  A
\* sum that stays near 2^64 is rounded by round_to either past 2^64, to 0,
\* or to a size no allocation can have, which panics.
reserve_more(b, n, checks) ==
    LET g == guard(b)
        c == b.front - g
        v == n + c
    IN  IF c < 0 /\ checks THEN Panic
        ELSE IF v < 0 /\ v + MINIMUM_BUFFER_GROWTH - 1 < 0 THEN Panic
        ELSE LET sz == IF v < 0 THEN 0 ELSE round_to(v, MINIMUM_BUFFER_GROWTH)
             IN  IF VecLen(b.data) >= sz THEN Done(b, None)
                 ELSE reserve_copy(b, g, c, sz)

\* push_unchecked(x)
push_unchecked(b, x) ==
    [b EXCEPT !.data[b.front % VecLen(b.data)] = x, !.front = b.front + 1]

\* the characters first .. first + k - 1 pushed one after the other
RECURSIVE push_all(_, _, _)
push_all(b, first, k) ==
    IF k = 0 THEN b ELSE push_all(push_unchecked(b, first), first + 1, k - 1)

\* push(x)
push(b, x, checks) ==
    \* reserve_more(1), then push_unchecked
    IF reserve_more(b, 1, checks).ok
    THEN Done(push_unchecked(reserve_more(b, 1, checks).ring, x), None)
    ELSE Panic

\* push_n(n, it), the iterator holding the characters first, first + 1, ...
\* and avail of them: the number pushed is returned
push_n(b, n, first, avail, checks) ==
    IF reserve_more(b, n, checks).ok
    THEN Done(push_all(reserve_more(b, n, checks).ring, first, Min(n, avail)), Min(n, avail))
    ELSE Panic

\* peek()
peek(b) == IF b.current < b.front THEN at(b, b.current) ELSE None

\* pop(): current is advanced whatever peek returned
pop(b) == Done([b EXCEPT !.current = b.current + 1], peek(b))

\* what an Iter yields: the characters at current_index .. boundary - 1
IterOf(b, current_index, boundary) ==
    [i \in 1 .. Max(boundary - current_index, 0) |-> at(b, current_index + i - 1)]

\* pop_n(n)
pop_n(b, n) ==
    Done([b EXCEPT !.current = Min(b.current + n, b.front)],
         IterOf(b, b.current, Min(b.current + n, b.front)))

\* iter()
iter(b) == IterOf(b, b.current, b.front)

\* set_anchor(anchor) and revert()
set_anchor(b, a) == Done([b EXCEPT !.anchor = a], b.anchor)
revert(b) == IF b.anchor = None THEN Panic ELSE Done([b EXCEPT !.current = b.anchor], None)

BufInit ==
    /\ ring = new_sized(DEFAULT_BUFFER_SIZE)
    /\ fifo = <<>>
    /\ ret = [of |-> "new", ok |-> TRUE, val |-> None]
    /\ overflow_checks = "unknown"
    /\ overrun = FALSE
    /\ nested = FALSE
    /\ scopes = <<>>

\* ---------------------------------------------------- utils/iter.rs
\* IterStream: an iterator with a look-ahead buffer.  The raw iterator is
\* the sequence of the items it still yields; an Option is the item or None.
MaxStream == 3
MaxPeek == 2
MaxLookahead == 3
StreamItems == 1 .. MaxStream

IterStream_from(raw) == [raw_iter |-> raw, buffer |-> <<>>]

\* what next() yields from now on
Upcoming(s) == s.buffer \o s.raw_iter

\* self.buffer.pop_front().or_else(|| self.raw_iter.next())
IterStream_next(s) ==
    IF s.buffer # <<>>
    THEN [ok |-> TRUE, val |-> Head(s.buffer), stream |-> [s EXCEPT !.buffer = Tail(@)]]
    ELSE IF s.raw_iter # <<>>
    THEN [ok |-> TRUE, val |-> Head(s.raw_iter), stream |-> [s EXCEPT !.raw_iter = Tail(@)]]
    ELSE [ok |-> TRUE, val |-> None, stream |-> s]

IterStream_put_back(s, x) == [s EXCEPT !.buffer = <<x>> \o @]

\* while self.buffer.len() < n { self.buffer.push_back(self.raw_iter.next()?) }
RECURSIVE IterStream_prepare(_, _)
IterStream_prepare(s, n) ==
    IF Len(s.buffer) >= n THEN [some |-> TRUE, stream |-> s]
    ELSE IF s.raw_iter = <<>> THEN [some |-> FALSE, stream |-> s]
    ELSE IterStream_prepare([raw_iter |-> Tail(s.raw_iter),
                             buffer |-> Append(s.buffer, Head(s.raw_iter))], n)

\* self.prepare(n)?; Some(&self.buffer[n]): indexing a VecDeque out of
\* bounds panics
IterStream_index(s, n) ==
    IF n < Len(s.buffer)
    THEN [ok |-> TRUE, val |-> s.buffer[n + 1], stream |-> s]
    ELSE [ok |-> FALSE, val |-> None, stream |-> s]
IterStream_peek(s, n) ==
    IF IterStream_prepare(s, n).some
    THEN IterStream_index(IterStream_prepare(s, n).stream, n)
    ELSE [ok |-> TRUE, val |-> None, stream |-> IterStream_prepare(s, n).stream]

StreamInit ==
    /\ iter_stream = IterStream_from(<<>>)
    /\ yielded = [of |-> "from", ok |-> TRUE, val |-> None, n |-> 0, buffered |-> 0]
    /\ upcoming = <<>>

\* ------------------------------------------------- scanner/layout.rs
\* A lexeme of the file: what it is ("module", one of let/where/do/of,
\* "{", "}" or anything else), the line it is on and its column.
MaxLexemes == 3
MaxLine == 2
MaxColumn == 2
LetWhereDoOf == "let"
Lexemes == {"module", LetWhereDoOf, "{", "}", "t"}
Fat(lexeme, line, column) == [lexeme |-> lexeme, line |-> line, column |-> column]
FatLexemes == {Fat(t, l, c) : t \in Lexemes, l \in 1 .. MaxLine, c \in 1 .. MaxColumn}
RECURSIVE Sources(_)
Sources(k) ==
    IF k = 0 THEN {<<>>}
    ELSE Sources(k - 1) \cup
         {Append(q, x) : q \in {r \in Sources(k - 1) : Len(r) = k - 1},
                         x \in FatLexemes}
InOrder(q) ==
    \A i \in 1 .. Len(q) - 1 :
        \/ q[i].line < q[i + 1].line
        \/ q[i].line = q[i + 1].line /\ q[i].column < q[i + 1].column

\* None where an Option of a lexeme is expected
NoFat == Fat("-", 0, 0)
NoEnriched == [k |-> "None", n |-> 0, lexeme |-> "-"]
NoAugmented == "None"
CurlyN(n) == [k |-> "CurlyN", n |-> n, lexeme |-> "-"]
AngleN(n) == [k |-> "AngleN", n |-> n, lexeme |-> "-"]
Normal(t) == [k |-> "Normal", n |-> 0, lexeme |-> t]
PhantomOpenCurlyBracket == "phantom {"
PhantomCloseCurlyBracket == "phantom }"
PhantomSemicolon == "phantom ;"

\* From<FatLexemeIterator> for EnrichedLexemeIterator
Enriched_from(fat) ==
    [iterator |-> IterStream_from(fat), last_lexeme |-> "StartOfFile", last_line |-> 0]

\* The item `next` of EnrichedLexemeIterator::next is the look-ahead
\* self.iterator.peek(0).  It is taken here as the first item to come:
\* IterStream_peek panics at this call (C23), before any rule is looked at.
Lookahead(s) == IF Upcoming(s) = <<>> THEN NoFat ELSE Head(Upcoming(s))

\* the last arm of the match: pass the lexeme through; self.iterator.next()?
\* returns None at the end of the file
Enriched_pass(e, taken) ==
    [val |-> Normal(taken.val.lexeme),
     it |-> [iterator |-> taken.stream,
             last_lexeme |-> IF taken.val.lexeme = LetWhereDoOf
                             THEN "LetWhereDoOf" ELSE "Other",
             last_line |-> taken.val.line]]

\* EnrichedLexemeIterator::next, the match on last_lexeme
Enriched_next(e, next) ==
    IF e.last_lexeme = "LetWhereDoOf" /\ (next = NoFat \/ next.lexeme # "{")
    THEN [val |-> CurlyN(IF next = NoFat THEN 0 ELSE next.column),
          it |-> [e EXCEPT !.last_lexeme = "PassThrough"]]
    ELSE IF e.last_lexeme = "StartOfFile" /\ next # NoFat
            /\ next.lexeme \notin {"{", "module"}
    THEN [val |-> CurlyN(next.column),
          it |-> [e EXCEPT !.last_lexeme = "PassThrough"]]
    ELSE IF e.last_lexeme = "Other" /\ next # NoFat /\ next.line > e.last_line
    THEN [val |-> AngleN(next.column),
          it |-> [e EXCEPT !.last_line = next.line]]
    ELSE IF Upcoming(e.iterator) = <<>> THEN [val |-> NoEnriched, it |-> e]
    ELSE Enriched_pass(e, IterStream_next(e.iterator))

\* From<EnrichedLexemeIterator> for AugmentedLexemeIterator; `back` is the
\* buffer of its IterStream, whose raw iterator is `enriched`
Augmented_from(e) == [enriched |-> e, back |-> <<>>, indents |-> <<>>, buffer |-> <<>>]

\* self.iterator.next() of prepare_next
Augmented_take(a) ==
    IF a.back # <<>>
    THEN [val |-> Head(a.back), it |-> [a EXCEPT !.back = Tail(@)]]
    ELSE [val |-> Enriched_next(a.enriched, Lookahead(a.enriched.iterator)).val,
          it |-> [a EXCEPT !.enriched =
                      Enriched_next(a.enriched, Lookahead(a.enriched.iterator)).it]]

Front(q) == SubSeq(q, 1, Len(q) - 1)
LastIndent(a) == IF a.indents = <<>> THEN None ELSE a.indents[Len(a.indents)]
Prepared(a, seen) == [ok |-> TRUE, it |-> a, curly |-> seen]
NoCurly == [seen |-> FALSE, n |-> 0, m |-> None, pushed |-> FALSE]
Curly(n, m, pushed) == [seen |-> TRUE, n |-> n, m |-> m, pushed |-> pushed]

\* AugmentedLexemeIterator::prepare_next; t is what the stream gave and a
\* the iterator after it
RECURSIVE prepare_next(_)
prepare_match(a, t, m) ==
    IF t = NoEnriched
    THEN IF m = None THEN Prepared(a, NoCurly)
         ELSE IF m = 0 THEN [ok |-> FALSE, it |-> [a EXCEPT !.indents = Front(@)],
                             curly |-> NoCurly]
         ELSE Prepared([a EXCEPT !.indents = Front(@),
                                 !.buffer = Append(@, PhantomCloseCurlyBracket)], NoCurly)
    ELSE IF t.k = "AngleN" /\ m # None /\ m = t.n
    THEN Prepared([a EXCEPT !.buffer = Append(@, PhantomSemicolon)], NoCurly)
    ELSE IF t.k = "AngleN" /\ m # None /\ t.n < m
    THEN Prepared([a EXCEPT !.back = <<AngleN(t.n)>> \o @,
                            !.indents = Front(@),
                            !.buffer = Append(@, PhantomCloseCurlyBracket)], NoCurly)
    ELSE IF t.k = "AngleN" THEN prepare_next(a)
    ELSE IF t.k = "CurlyN" /\ (m = None \/ t.n > m)
    THEN Prepared([a EXCEPT !.indents = Append(@, t.n),
                            !.buffer = Append(@, PhantomOpenCurlyBracket)],
                  Curly(t.n, m, TRUE))
    ELSE IF t.k = "CurlyN"
    THEN Prepared([a EXCEPT !.buffer = @ \o <<PhantomOpenCurlyBracket,
                                              PhantomCloseCurlyBracket>>,
                            !.back = <<AngleN(t.n)>> \o @],
                  Curly(t.n, m, FALSE))
    ELSE IF t.lexeme = "}" /\ m # None
    THEN IF m # 0 THEN [ok |-> FALSE, it |-> a, curly |-> NoCurly]
         ELSE Prepared([a EXCEPT !.indents = Front(@),
                                 !.buffer = Append(@, "}")], NoCurly)
    ELSE IF t.lexeme = "{"
    THEN Prepared([a EXCEPT !.indents = Append(@, 0),
                            !.buffer = Append(@, "{")], NoCurly)
    ELSE Prepared([a EXCEPT !.buffer = Append(@, t.lexeme)], NoCurly)
prepare_next(a) ==
    prepare_match(Augmented_take(a).it, Augmented_take(a).val,
                  LastIndent(Augmented_take(a).it))

\* AugmentedLexemeIterator::next: self.prepare_next(); self.buffer.pop_front()
Augmented_pop(p) ==
    IF ~p.ok \/ p.it.buffer = <<>>
    THEN [ok |-> p.ok, val |-> NoAugmented, it |-> p.it, curly |-> p.curly]
    ELSE [ok |-> TRUE, val |-> Head(p.it.buffer),
          it |-> [p.it EXCEPT !.buffer = Tail(@)], curly |-> p.curly]
Augmented_next(a) == Augmented_pop(prepare_next(a))

LayoutInit ==
    /\ source = <<>>
    /\ augmented = Augmented_from(Enriched_from(<<>>))
    /\ laid = [of |-> "from", ok |-> TRUE, val |-> NoAugmented, curly |-> NoCurly]
    /\ phantoms = [opened |-> 0, closed |-> 0, zero |-> FALSE]

\* ---------------------------------------- scanner.rs, utils/control.rs
\* A Scanner over a text of MaxText characters: `input` is how many of
\* them are consumed, `location` the offset its Location has reached and
\* `diagnostics` the locations of the diagnostics reported so far.
MaxText == 3
MaxDiagnostics == 2
Scanner_new == [input |-> 0, location |-> 0, diagnostics |-> <<>>]

\* The three implementations of Either and the values of each
EitherTypes == {"Option", "Result", "Result3"}
Values(et) ==
    CASE et = "Option" -> {"Some", "None"}
      [] et = "Result" -> {"Ok", "Err"}
      [] et = "Result3" -> {"Success", "FailFast", "RetryLater"}
\* Maybe::is_just
is_just(x) == x \in {"Some", "Ok", "Success"}
\* Either::into_result: Err for None, Err(e) and RetryLater(m), Ok for the
\* rest, FailFast(e) among them
into_result(x) == IF x \in {"None", "Err", "RetryLater"} THEN "Err" ELSE "Ok"

\* DiagnosticsEngine::len and truncate: the engine is a vector of
\* diagnostics
DiagnosticsEngine_len(d) == Len(d)
DiagnosticsEngine_truncate(d, n) == SubSeq(d, 1, Min(n, Len(d)))

\* What one call of a rule f does to the scanner: it consumes `consumed`
\* characters, steps the location over them or not (Stream::next steps,
\* Stream::match does not), reports `reported` diagnostics and returns
\* `value`.
Doings(sc, et) ==
    {[consumed |-> c, stepped |-> l, reported |-> d, value |-> x] :
        c \in 0 .. MaxText - sc.input, l \in BOOLEAN,
        d \in 0 .. Min(1, MaxDiagnostics - Len(sc.diagnostics)), x \in Values(et)}
Call(sc, f) ==
    [input |-> sc.input + f.consumed,
     location |-> sc.location + (IF f.stepped THEN f.consumed ELSE 0),
     diagnostics |-> sc.diagnostics \o [i \in 1 .. f.reported |-> sc.location]]

\* Scanner::anchored(f): the scanner after the call
anchored_without_truncate(sc, f) ==
    IF into_result(f.value) = "Ok" THEN Call(sc, f)
    ELSE [input |-> sc.input, location |-> sc.location,
          diagnostics |-> Call(sc, f).diagnostics]
anchored(sc, f) ==
    IF into_result(f.value) = "Ok" THEN Call(sc, f)
    ELSE [input |-> sc.input, location |-> sc.location,
          diagnostics |-> DiagnosticsEngine_truncate(Call(sc, f).diagnostics,
                                                      DiagnosticsEngine_len(sc.diagnostics))]

ScanInit ==
    /\ scanner = Scanner_new
    /\ attempt = [of |-> "new", before |-> Scanner_new, ran |-> Scanner_new,
                  value |-> "Ok"]
    /\ many_loop = [at |-> "idle", et |-> "Option", turn |-> FALSE]

IoInit == BufInit /\ StreamInit /\ LayoutInit /\ ScanInit

Init == AutoInit /\ ClassInit /\ SynInit /\ PartInit /\ FmtInit /\ IoInit

\* --------------------------------------------- RegEx::fold / Builder::build
\* The fold visits the regex in post-order: the folded children lie on top
\* of the stack when their parent's operator is applied.
LastK(q, k) == SubSeq(q, Len(q) - k + 1, Len(q))
DropK(q, k) == SubSeq(q, 1, Len(q) - k)

Returned(b, rest, reg) ==
    /\ next_available_state' = b.next
    /\ transitions' = b.trans
    /\ stack' = Append(rest, Frag(b.start, b.accepted, reg))
    /\ UNCHANGED <<pc, dfa, pending, resulting, cur, ci, mindfa>>
    /\ UNCHANGED <<genVars, classVars, synVars, partVars, fmtVars, ioVars>>

BuildAtom ==
    /\ pc = "build"
    /\ StackSize < MaxNodes
    /\ \E xs \in AtomChoices :
          Returned(atom(next_available_state, transitions, xs), stack, Atom(xs))

BuildAlt ==
    /\ pc = "build"
    /\ StackSize < MaxNodes
    /\ \E k \in 0 .. MaxChildren :
          /\ k <= Len(stack)
          /\ LET ms == LastK(stack, k)
             IN  Returned(alt(next_available_state, transitions, ms), DropK(stack, k),
                          Alt([i \in 1 .. k |-> ms[i].regex]))

BuildConcat ==
    /\ pc = "build"
    /\ StackSize < MaxNodes
    /\ \E k \in 0 .. MaxChildren :
          /\ k <= Len(stack)
          /\ LET ms == LastK(stack, k)
             IN  Returned(concat(next_available_state, transitions, ms), DropK(stack, k),
                          Concat([i \in 1 .. k |-> ms[i].regex]))

BuildSome ==
    /\ pc = "build"
    /\ StackSize < MaxNodes
    /\ Len(stack) >= 1
    /\ LET m == stack[Len(stack)]
       IN  Returned(some(next_available_state, transitions, m), DropK(stack, 1),
                    Some(m.regex))

BuildOptional ==
    /\ pc = "build"
    /\ StackSize < MaxNodes
    /\ Len(stack) >= 1
    /\ LET m == stack[Len(stack)]
       IN  Returned(optional(next_available_state, transitions, m), DropK(stack, 1),
                    Optional(m.regex))

\* ------------------------------------------------------- DFA::minimize
\* generic_union over the reverse_trans ranges (x, c, MIN) ..= (x, c, MAX)
\* of the states x of a set: the sources of the c-transitions into the set,
\* ascending and without duplicates
generic_union(d, xs, c) ==
    SortedSeq({t[1] : t \in {u \in d.transitions : u[2] = c /\ u[3] \in SeqRange(xs)}})

\* `if !pending.iter().any(|z| py.is_subset_of(z)) { pending.push_back(py) }`
\* for every y of newly_formed, in order
RECURSIVE push_newly_formed(_, _, _)
push_newly_formed(q, P, ys) ==
    IF ys = <<>> THEN q
    ELSE LET py == P.partitions[Head(ys)]
         IN  push_newly_formed(
                 IF \E i \in 1 .. Len(q) : is_subset_of(py, q[i]) THEN q ELSE Append(q, py),
                 P, Tail(ys))

\* the initial `.for_each(|p| pending.push_back(resulting[p]))`
PartsOf(P, ys) == [i \in 1 .. Len(ys) |-> P.partitions[ys[i]]]

\* BTreeMap collect of ((set of s, a), set of t): entries are inserted in
\* ascending (s, a) order, a later one replacing an earlier one with its key
collect_transitions(d, P) ==
    {<<P.parent_set[t[1]], t[2], P.parent_set[t[3]]>> :
        t \in {u \in d.transitions :
                 \A v \in d.transitions :
                     (v[2] = u[2] /\ P.parent_set[v[1]] = P.parent_set[u[1]])
                         => v[1] <= u[1]}}

\* the DFA built at the end of minimize from the simplified partitions
minimized(d, P) ==
    [state_count |-> set_count(P),
     input_set |-> d.input_set,
     transitions |-> collect_transitions(d, P),
     accepted_states |-> {P.parent_set[s] : s \in d.accepted_states}]

\* minimize up to the first pop_set
MinimizeStart ==
    /\ pc = "determined"
    /\ LET R == refine_with(new(dfa.state_count), SortedSeq(dfa.accepted_states),
                            SortedSeq(IF dfa.accepted_states = {} THEN {} ELSE {0}))
       IN  /\ resulting' = R.p
           /\ pending' = PartsOf(R.p, R.newly_formed)
    /\ pc' = "minimizing"
    /\ cur' = -1
    /\ ci' = 0
    /\ UNCHANGED <<next_available_state, transitions, stack, dfa, mindfa>>
    /\ UNCHANGED <<genVars, classVars, synVars, partVars, fmtVars, ioVars>>

\* pop_set(&mut pending, &resulting) returning Some(s); the index
\* back_buffer[self.start] of Part::pop_set_according_to panics when
\* start is not below the buffer length
PopSet ==
    /\ pc = "minimizing"
    /\ cur = -1
    /\ pending # <<>>
    /\ IF pending[1].start \notin DOMAIN resulting.back_buffer
       THEN /\ pc' = "panicked"
            /\ UNCHANGED <<pending, cur>>
       ELSE LET a == resulting.back_buffer[pending[1].start]
                s == resulting.parent_set[a]
                front == [pending[1] EXCEPT !.start = resulting.partitions[s].end]
            IN  /\ pending' = IF PartIsEmpty(front) THEN Tail(pending)
                              ELSE <<front>> \o Tail(pending)
                /\ cur' = IF dfa.input_set = <<>> THEN -1 ELSE s
                /\ pc' = pc
    /\ ci' = 0
    /\ UNCHANGED <<next_available_state, transitions, stack, dfa, resulting, mindfa>>
    /\ UNCHANGED <<genVars, classVars, synVars, partVars, fmtVars, ioVars>>

\* one round of `for c in self.input_set` for the popped set
RefineStep ==
    /\ pc = "minimizing"
    /\ cur # -1
    /\ LET c == dfa.input_set[ci + 1]
           x == generic_union(dfa, set_iter(resulting, cur), c)
       IN  \E order \in Orderings(AffectedSets(resulting, x)) :
              LET R == refine_with(resulting, x, order)
              IN  /\ resulting' = R.p
                  /\ pending' = push_newly_formed(pending, R.p, R.newly_formed)
                  /\ pc' = IF R.ok THEN pc ELSE "panicked"
    /\ ci' = ci + 1
    /\ cur' = IF ci + 1 = Len(dfa.input_set) THEN -1 ELSE cur
    /\ UNCHANGED <<next_available_state, transitions, stack, dfa, mindfa>>
    /\ UNCHANGED <<genVars, classVars, synVars, partVars, fmtVars, ioVars>>

\* pop_set returned None: simplify, promote the set of state 0, build the DFA
MinimizeFinish ==
    /\ pc = "minimizing"
    /\ cur = -1
    /\ pending = <<>>
    /\ LET P1 == simplify(resulting)
           q0 == P1.parent_set[0]
           P2 == promote_to_head(P1, q0)
       IN  /\ resulting' = P2
           /\ mindfa' = minimized(dfa, P2)
    /\ pc' = "minimized"
    /\ UNCHANGED <<next_available_state, transitions, stack, dfa, pending, cur, ci>>
    /\ UNCHANGED <<genVars, classVars, synVars, partVars, fmtVars, ioVars>>

\* Builder::finish(m) on the fragment Builder::build returned
Finish ==
    /\ pc = "build"
    /\ Len(stack) = 1
    /\ dfa' = finish(transitions, stack[1])
    /\ pc' = "determined"
    /\ UNCHANGED <<next_available_state, transitions, stack, pending, resulting,
                   cur, ci, mindfa>>
    /\ UNCHANGED <<genVars, classVars, synVars, partVars, fmtVars, ioVars>>

Next ==
    \/ BuildAtom
    \/ BuildAlt
    \/ BuildConcat
    \/ BuildSome
    \/ BuildOptional
    \/ Finish
    \/ MinimizeStart
    \/ PopSet
    \/ RefineStep
    \/ MinimizeFinish

Spec == Init /\ [][Next]_vars

\* ------------------------------------------- Builder::build as one call
\* RegEx::fold: the children are folded first, left to right, every one on
\* the builder the one before left behind; then the operator is applied.
build_some(b, reg) == some(b.next, b.trans, Frag(b.start, b.accepted, reg))
build_optional(b, reg) == optional(b.next, b.trans, Frag(b.start, b.accepted, reg))
build_alt(c) == alt(c.next, c.trans, c.ms)
build_concat(c) == concat(c.next, c.trans, c.ms)
build_child(c, b, reg) ==
    [next |-> b.next, trans |-> b.trans, ms |-> Append(c.ms, Frag(b.start, b.accepted, reg))]

RECURSIVE build(_, _, _)
RECURSIVE build_children(_, _)
build_children(c, rs) ==
    IF rs = <<>> THEN c
    ELSE build_children(build_child(c, build(c.next, c.trans, Head(rs)), Head(rs)), Tail(rs))
build(n, T, r) ==
    CASE r.op = "Atom" -> atom(n, T, r.cls)
      [] r.op = "Alt" -> build_alt(build_children([next |-> n, trans |-> T, ms |-> <<>>], r.rs))
      [] r.op = "Concat" ->
             build_concat(build_children([next |-> n, trans |-> T, ms |-> <<>>], r.rs))
      [] r.op = "Some" -> build_some(build(n, T, r.rs[1]), r.rs[1])
      [] r.op = "Optional" -> build_optional(build(n, T, r.rs[1]), r.rs[1])

\* the regexes given to build: an atom, or a regex one level less deep
\* under Some or Optional, or followed by or alternated with an atom
MaxDepth == 3
BuildAtoms == {Atom({0}), Atom({0, 1})}
RECURSIVE BuildInputs(_)
BuildInputs(k) ==
    IF k = 0 THEN BuildAtoms
    ELSE LET R == BuildInputs(k - 1)
         IN  R \cup {Some(r) : r \in R} \cup {Optional(r) : r \in R}
               \cup {Concat(<<r, a>>) : r \in R, a \in BuildAtoms}
               \cup {Alt(<<r, a>>) : r \in R, a \in BuildAtoms}

Build ==
    /\ pc = "build"
    /\ stack = <<>>
    /\ \E r \in BuildInputs(MaxDepth) :
          \E b \in {build(next_available_state, transitions, r)} :
              Returned(b, <<>>, r)

NextMinimize ==
    \/ Build
    \/ Finish
    \/ MinimizeStart
    \/ PopSet
    \/ RefineStep
    \/ MinimizeFinish

SpecMinimize == Init /\ [][NextMinimize]_vars

\* ------------------------------------------------- codegen.rs: gen_dfa
\* The DFA that finish returns to gen_dfa pairs every accepted state t with
\* ns, the NFA states of its subset: determine's `states`, by DFA state.
accepted_sets(T, m) ==
    LET c0 == [states |-> <<>>, states_to_process |-> <<>>,
               new_transitions |-> {}, last |-> 0]
        inputs == SortedSeq({e.input : e \in T} \ {EPSILON})
        c == determine_loop(T, inputs,
                            add_or_get_state_set(c0, epsilon_closure_single(T, m.start)))
    IN  [t \in {i - 1 : i \in {j \in 1 .. Len(c.states) : m.accepted \in c.states[j]}} |->
            c.states[t + 1]]

\* one step of a DFA; -1 is the rejecting sink of a missing transition
DFAStep(d, s, c) ==
    LET next == {t \in d.transitions : t[1] = s /\ t[2] = c}
    IN  IF next = {} THEN -1 ELSE (CHOOSE t \in next : TRUE)[3]

\* TaggedDFA::name_an_input_for(t): breadth-first search from state 0, the
\* inputs of a state tried in the order of input_set; paths maps every state
\* found so far to the inputs that led to it first.
RECURSIVE bfs_inputs(_, _, _, _)
bfs_inputs(d, s, i, st) ==
    IF i > Len(d.input_set) THEN st
    ELSE LET a == d.input_set[i]
             t == DFAStep(d, s, a)
         IN  bfs_inputs(d, s, i + 1,
                 IF t = -1 \/ t \in DOMAIN st.paths THEN st
                 ELSE [paths |-> st.paths @@ (t :> Append(st.paths[s], a)),
                       queue |-> Append(st.queue, t)])

RECURSIVE bfs(_, _)
bfs(d, st) ==
    IF st.queue = <<>> THEN st.paths
    ELSE bfs(d, bfs_inputs(d, Head(st.queue), 1,
                           [st EXCEPT !.queue = Tail(@)]))

name_an_input_for(d, t) == bfs(d, [paths |-> (0 :> <<>>), queue |-> <<0>>])[t]

\* the argument chars of gen_dfa: the lowest code point of every class
CharTables ==
    {c \in [1 .. NumClasses -> Chars] : \A i \in 1 .. NumClasses - 1 : c[i] < c[i + 1]}

\* a rendering that takes the code point before the class
render_before(w, cs) == [i \in 1 .. Len(w) |-> cs[w[i] + 1] - 1]

\* the witness input of a diagnostic: chars[a] for every symbol a of the path
render(w, cs) == [i \in 1 .. Len(w) |-> cs[w[i] + 1]]

\* ns.into_iter() of an NFAStateSet, a BTreeSet: ascending; ns_iter_hashed
\* is the order a hashed set could give
ns_iter_hashed(S) == Reverse(SortedSeq(S))

ns_iter(S) == SortedSeq(S)

\* gen_dfa up to the TaggedDFA it hands to minimize_with: the tag of rule i
\* is i; tags is keyed by the accepted state of the rule's machine.  The
\* alternation over the rules is one more node of the regex.
gen_dfa(n, T, ms) ==
    LET b == alt(n, T, ms)
        m == [start |-> b.start, accepted |-> b.accepted]
        d == finish(b.trans, m)
        sets == accepted_sets(b.trans, m)
        tags == {ms[i].accepted : i \in 1 .. Len(ms)}
        tag(x) == CHOOSE i \in 1 .. Len(ms) : ms[i].accepted = x
        ns(t) == sets[t] \cap tags
        single == {t \in DOMAIN sets : Cardinality(ns(t)) = 1}
        the(t) == CHOOSE x \in ns(t) : TRUE
        keys == SortedSeq({the(t) : t \in single})
    IN  [built |-> b,
         conflict |-> \E t \in DOMAIN sets : Cardinality(ns(t)) > 1,
         dfa |-> [d EXCEPT !.accepted_states = single],
         ns |-> [t \in DOMAIN sets |->
                    [k \in 1 .. Cardinality(ns(t)) |-> tag(ns_iter(ns(t))[k])]],
         tagged_states |-> [t \in single |-> tag(the(t))],
         acc_class |-> [k \in 1 .. Len(keys) |->
                           SortedSeq({t \in single : the(t) = keys[k]})]]

\* gen_dfa stopping at the first Err instead of combining them
conflicting_first(g) ==
    LET c == {t \in DOMAIN g.ns : Len(g.ns[t]) > 1}
    IN  IF c = {} THEN {} ELSE {SetMin(c)}

\* the accepted states gen_dfa answers with an Err: more than one rule
conflicting(g) == {t \in DOMAIN g.ns : Len(g.ns[t]) > 1}

\* syn::Error of one conflicting state: the tags of ns in the order of ns
\* and the rendered shortest input; state and path record the DFA state it
\* is about and the input before rendering
diagnostic(g, t, cs) ==
    LET w == name_an_input_for(g.dfa, t)
    IN  [state |-> t, names |-> g.ns[t], path |-> w, input |-> render(w, cs)]

\* the accepted states are visited in the order the table yields them, and
\* every Err is combined into the first one
GenDfa ==
    /\ pc = "build"
    /\ StackSize < MaxNodes
    /\ \E g \in {gen_dfa(next_available_state, transitions, stack)} :
           /\ next_available_state' = g.built.next
           /\ transitions' = g.built.trans
           /\ stack' = <<Frag(g.built.start, g.built.accepted, Alt(StackRegs))>>
           /\ dfa' = g.dfa
           /\ tagged_states' = IF g.conflict THEN EmptyVec ELSE g.tagged_states
           /\ acc_class' = g.acc_class
           /\ \E order \in Orderings(conflicting(g)) :
                  \E cs \in IF g.conflict THEN CharTables ELSE {<<>>} :
                      /\ chars' = cs
                      /\ errors' = [k \in 1 .. Len(order) |->
                                        diagnostic(g, order[k], cs)]
           /\ pc' = IF g.conflict THEN "conflict" ELSE "tagged"
    /\ UNCHANGED <<pending, resulting, cur, ci, mindfa, classVars, synVars, partVars, fmtVars, ioVars>>

\* SpecGen runs both minimizers: DFA::minimize on the DFA of one regex and
\* TaggedDFA::minimize_with on the tagged DFA of gen_dfa.
\* TaggedDFA::minimize_with(acc_class): the initial partition has one part
\* for every class of acc_class and one for the states left over
RECURSIVE minimize_with_init(_, _, _)
minimize_with_init(P, q, classes) ==
    IF classes = <<>> THEN [p |-> P, pending |-> q, ok |-> TRUE]
    ELSE LET R == refine_with(P, Head(classes),
                              SortedSeq(AffectedSets(P, Head(classes))))
         IN  IF R.ok
             THEN minimize_with_init(R.p, q \o PartsOf(R.p, R.newly_formed), Tail(classes))
             ELSE [p |-> R.p, pending |-> q, ok |-> FALSE]

MinimizeWithStart ==
    /\ pc = "tagged"
    /\ LET R == minimize_with_init(new(dfa.state_count), <<>>, acc_class)
       IN  /\ resulting' = R.p
           /\ pending' = R.pending
           /\ pc' = IF R.ok THEN "minimizing" ELSE "panicked"
    /\ cur' = -1
    /\ ci' = 0
    /\ UNCHANGED <<next_available_state, transitions, stack, dfa, mindfa>>
    /\ UNCHANGED <<genVars, classVars, synVars, partVars, fmtVars, ioVars>>

NextGen ==
    \/ BuildAtom
    \/ BuildAlt
    \/ BuildConcat
    \/ BuildSome
    \/ BuildOptional
    \/ Finish
    \/ MinimizeStart
    \/ GenDfa
    \/ MinimizeWithStart
    \/ PopSet
    \/ RefineStep
    \/ MinimizeFinish

SpecGen == Init /\ [][NextGen]_vars

\* Builder::build alone
NextBuild ==
    \/ BuildAtom
    \/ BuildAlt
    \/ BuildConcat
    \/ BuildSome
    \/ BuildOptional

SpecBuild == Init /\ [][NextBuild]_vars

\* ------------------------------ character classes and classification
RECURSIVE AtomCount(_)
AtomCount(rs) == IF rs = <<>> THEN 0 ELSE Len(Head(rs)) + AtomCount(Tail(rs))

\* the lowered atom opens the regex of a new rule or goes on in the last one
CanLower ==
    /\ cpc = "lower"
    /\ ctor = "none"
    /\ AtomCount(rules) < MaxAtoms

Lowered(cls, fresh) ==
    /\ fresh \/ rules # <<>>
    /\ rules' = IF fresh THEN Append(rules, <<cls>>)
                ELSE [rules EXCEPT ![Len(rules)] = Append(@, cls)]
    /\ UNCHANGED <<cpc, split_points, lexemes, ctor, given, made>>
    /\ UNCHANGED <<autoVars, synVars, partVars, fmtVars, ioVars>>

\* Atom::Char
LowerChar ==
    /\ CanLower
    /\ \E c \in Chars, fresh \in BOOLEAN : Lowered(lower_char(c), fresh)

\* Atom::Range: 'x'..'y' for any two character literals
LowerRange ==
    /\ CanLower
    /\ \E b \in Chars, e \in Chars, fresh \in BOOLEAN : Lowered(lower_range(b, e), fresh)

\* Atom::Class
LowerClass ==
    /\ CanLower
    /\ \E row \in TableRows, fresh \in BOOLEAN : Lowered(make_char_class(row), fresh)

\* RegEx::classify_chars on the regex of one rule
ClassifyChars ==
    /\ cpc = "lower"
    /\ ctor = "none"
    /\ Len(rules) = 1
    /\ LET res == classify_chars(rules[1])
       IN  /\ split_points' = res.split_points
           /\ lexemes' = <<res.regex>>
    /\ cpc' = "classified"
    /\ UNCHANGED <<rules, ctor, given, made>>
    /\ UNCHANGED <<autoVars, synVars, partVars, fmtVars, ioVars>>

\* RootDef::try_from: one table shared by all the rules
RootDefTryFrom ==
    /\ cpc = "lower"
    /\ ctor = "none"
    /\ LET sp == ToVec(SortedSeq(collect_all(rules, {})))
       IN  /\ split_points' = sp
           /\ lexemes' = [r \in 1 .. Len(rules) |-> classify_chars_with(rules[r], sp)]
    /\ cpc' = "classified"
    /\ UNCHANGED <<rules, ctor, given, made>>
    /\ UNCHANGED <<autoVars, synVars, partVars, fmtVars, ioVars>>

\* the non-empty ranges [b, e) and the lists of them a constructor is given
RawRanges == {from_raw(b, e) : b \in 0 .. MaxChar, e \in 1 .. CodeSpaceEnd} \cap
                 {r \in [begin : 0 .. MaxChar, end : 1 .. CodeSpaceEnd] : r.begin < r.end}
RangeLists == UNION {[1 .. n -> RawRanges] : n \in 0 .. MaxRanges}

CanConstruct ==
    /\ cpc = "lower"
    /\ rules = <<>>

Constructed(name, arg, cls) ==
    /\ ctor' = name
    /\ given' = arg
    /\ made' = cls
    /\ cpc' = "made"
    /\ UNCHANGED <<rules, split_points, lexemes>>
    /\ UNCHANGED <<autoVars, synVars, partVars, fmtVars, ioVars>>

\* UnicodeCharClass::empty()
MakeEmpty == CanConstruct /\ Constructed("empty", <<>>, empty)

\* UnicodeCharClass::from_sorted(v)
MakeFromSorted ==
    /\ CanConstruct
    /\ \E v \in RangeLists : Constructed("from_sorted", v, from_sorted(v))

\* UnicodeCharClass::from(v)
MakeFromVec ==
    /\ CanConstruct
    /\ \E v \in RangeLists : Constructed("from_vec", v, from_vec(v))

NextClass ==
    \/ LowerChar
    \/ LowerRange
    \/ LowerClass
    \/ ClassifyChars
    \/ RootDefTryFrom
    \/ MakeEmpty
    \/ MakeFromSorted
    \/ MakeFromVec

SpecClass == Init /\ [][NextClass]_vars

\* ------------------------------------------- parsing and lowering steps
Item(level, tree) == [level |-> level, tree |-> tree]
TopAre(k, level) ==
    /\ k <= Len(syn)
    /\ \A i \in Len(syn) - k + 1 .. Len(syn) : syn[i].level = level
TopTrees(k) == [i \in 1 .. k |-> syn[Len(syn) - k + i].tree]
RuleCount == LET RECURSIVE cnt(_)
                 cnt(d) == IF d = <<>> THEN 0 ELSE Len(Head(d).body) + cnt(Tail(d))
             IN  cnt(body)

\* Repeat::parse on a character or class atom
ParseRepeat ==
    /\ spc = "parse"
    /\ nnodes < MaxSynNodes
    /\ \E x \in LeafRepeats : syn' = Append(syn, Item("repeat", x))
    /\ nnodes' = nnodes + 1
    /\ UNCHANGED <<spc, body, lowered, autoVars, classVars, partVars, fmtVars, ioVars>>

\* Repeat::parse on a parenthesized expression
ParseParen ==
    /\ spc = "parse"
    /\ nnodes < MaxSynNodes
    /\ TopAre(1, "expr")
    /\ \E k \in RepeatKinds :
           syn' = Append(DropK(syn, 1), Item("repeat", Repeat(k, AtomParen(TopTrees(1)[1]))))
    /\ nnodes' = nnodes + 1
    /\ UNCHANGED <<spc, body, lowered, autoVars, classVars, partVars, fmtVars, ioVars>>

\* Concat::parse: the loop takes the items there are, none included
ParseConcat ==
    /\ spc = "parse"
    /\ nnodes < MaxSynNodes
    /\ \E k \in 0 .. MaxItems :
           /\ TopAre(k, "repeat")
           /\ syn' = Append(DropK(syn, k), Item("concat", ConcatOf(TopTrees(k))))
    /\ nnodes' = nnodes + 1
    /\ UNCHANGED <<spc, body, lowered, autoVars, classVars, partVars, fmtVars, ioVars>>

\* Alt::parse: parse_separated_nonempty
ParseAlt ==
    /\ spc = "parse"
    /\ nnodes < MaxSynNodes
    /\ \E k \in 1 .. MaxItems :
           /\ TopAre(k, "concat")
           /\ syn' = Append(DropK(syn, k), Item("expr", Expr(TopTrees(k))))
    /\ nnodes' = nnodes + 1
    /\ UNCHANGED <<spc, body, lowered, autoVars, classVars, partVars, fmtVars, ioVars>>

\* Rule::parse inside WithCondition::parse: a single rule with its own
\* conditions, or one more rule of the group that was opened last
ParseRule ==
    /\ spc = "parse"
    /\ Len(syn) = 1
    /\ TopAre(1, "expr")
    /\ RuleCount < MaxRules
    /\ \/ \E sc \in StartConditions :
             body' = Append(body, WithCondition(sc, <<Rule(RuleCount + 1, syn[1].tree)>>))
       \/ /\ body # <<>>
          /\ body' = [body EXCEPT ![Len(body)].body =
                         Append(@, Rule(RuleCount + 1, syn[1].tree))]
    /\ syn' = <<>>
    /\ UNCHANGED <<spc, nnodes, lowered, autoVars, classVars, partVars, fmtVars, ioVars>>

\* RegEx::try_from(&Expr) on the parsed expression
ExprTryFrom ==
    /\ spc = "parse"
    /\ body = <<>>
    /\ Len(syn) = 1
    /\ TopAre(1, "expr")
    /\ lowered' = [of |-> "expr", res |-> expr_try_from(syn[1].tree)]
    /\ spc' = "done"
    /\ UNCHANGED <<syn, nnodes, body, autoVars, classVars, partVars, fmtVars, ioVars>>

\* RootDef::try_from(LexemeDef)
RootDefFromLexemeDef ==
    /\ spc = "parse"
    /\ syn = <<>>
    /\ lowered' = [of |-> "def", res |-> root_def_try_from(body)]
    /\ spc' = "done"
    /\ UNCHANGED <<syn, nnodes, body, autoVars, classVars, partVars, fmtVars, ioVars>>

NextLower ==
    \/ ParseRepeat
    \/ ParseParen
    \/ ParseConcat
    \/ ParseAlt
    \/ ParseRule
    \/ ExprTryFrom
    \/ RootDefFromLexemeDef

SpecLower == Init /\ [][NextLower]_vars

\* -------------------------------------------- Partitions used on its own
MaxElems == 4
MaxCalls == 2

\* the pivots: every set of elements of 0 .. n - 1, iterated in ascending
\* order as the BTreeSet iterators of DFA::minimize do
Pivots(n) == {SortedSeq(S) : S \in SUBSET (0 .. n - 1)}

\* Partitions::new(n)
PartNew ==
    /\ last_call = "none"
    /\ \E n \in 1 .. MaxElems : ptn' = new(n)
    /\ last_call' = "new"
    /\ UNCHANGED <<prev, pivot, formed, ncalls, autoVars, classVars, synVars, fmtVars, ioVars>>

\* Partitions::refine_with(pivot)
PartRefineWith ==
    /\ last_call # "none"
    /\ last_call # "panicked"
    /\ ncalls < MaxCalls
    /\ \E s \in Pivots(VecLen(ptn.back_buffer)) :
       \E order \in Orderings(AffectedSets(ptn, s)) :
       \E R \in {refine_with(ptn, s, order)} :
           /\ ptn' = R.p
           /\ formed' = R.newly_formed
           /\ pivot' = s
           /\ last_call' = IF R.ok THEN "refine_with" ELSE "panicked"
    /\ prev' = ptn
    /\ ncalls' = ncalls + 1
    /\ UNCHANGED <<autoVars, classVars, synVars, fmtVars, ioVars>>

\* Partitions::simplify()
PartSimplify ==
    /\ last_call \in {"new", "refine_with", "simplify", "promote_to_head"}
    /\ ncalls < MaxCalls
    /\ ptn' = simplify(ptn)
    /\ prev' = ptn
    /\ last_call' = "simplify"
    /\ ncalls' = ncalls + 1
    /\ UNCHANGED <<pivot, formed, autoVars, classVars, synVars, fmtVars, ioVars>>

\* Partitions::promote_to_head(n) for a set n
PartPromoteToHead ==
    /\ last_call \in {"new", "refine_with", "simplify", "promote_to_head"}
    /\ ncalls < MaxCalls
    /\ \E n \in 0 .. set_count(ptn) - 1 : ptn' = promote_to_head(ptn, n)
    /\ prev' = ptn
    /\ last_call' = "promote_to_head"
    /\ ncalls' = ncalls + 1
    /\ UNCHANGED <<pivot, formed, autoVars, classVars, synVars, fmtVars, ioVars>>

NextPart ==
    \/ PartNew
    \/ PartRefineWith
    \/ PartSimplify
    \/ PartPromoteToHead

SpecPart == Init /\ [][NextPart]_vars

\* ------------------------------------------------ a built regex is printed
\* expr.to_string() on the regex the builder was given
DisplayFmt ==
    /\ pc = "build"
    /\ Len(stack) = 1
    /\ printed' = [of |-> stack[1].regex, text |-> to_string(stack[1].regex)]
    /\ pc' = "printed"
    /\ UNCHANGED <<next_available_state, transitions, stack, dfa, pending, resulting,
                   cur, ci, mindfa>>
    /\ UNCHANGED <<genVars, classVars, synVars, partVars, ioVars>>

NextPretty ==
    \/ BuildAtom
    \/ BuildAlt
    \/ BuildConcat
    \/ BuildSome
    \/ BuildOptional
    \/ DisplayFmt

SpecPretty == Init /\ [][NextPretty]_vars

\* ------------------------------------------------- reference semantics
\* every word of class indices up to MaxWordLen
Words == UNION {[1 .. k -> ClassIdx] : k \in 0 .. MaxWordLen}

\* states reachable from S along epsilon edges (least fixpoint)
RECURSIVE EpsReach(_, _)
EpsReach(T, S) ==
    LET S2 == S \cup {e.destination : e \in {x \in T : x.departure \in S /\ x.input = EPSILON}}
    IN  IF S2 = S THEN S ELSE EpsReach(T, S2)

\* states reachable from S along edges of any label
RECURSIVE AnyReach(_, _)
AnyReach(T, S) ==
    LET S2 == S \cup {e.destination : e \in {x \in T : x.departure \in S}}
    IN  IF S2 = S THEN S ELSE AnyReach(T, S2)

\* the words of at most k symbols that some path from a state of S to the
\* state acc spells
RECURSIVE NFALang(_, _, _, _)
NFALang(T, acc, S, k) ==
    LET C == EpsReach(T, S)
    IN  IF C = {} THEN {}
        ELSE (IF acc \in C THEN {<<>>} ELSE {})
             \cup (IF k = 0 THEN {}
                   ELSE UNION {{<<c>> \o w : w \in
                                  NFALang(T, acc,
                                          {e.destination : e \in {x \in T : x.departure \in C
                                                                            /\ x.input = c}},
                                          k - 1)} : c \in ClassIdx})

\* the words up to MaxWordLen spelled by a path from m.start to m.accepted
NFAWords(T, m) == NFALang(T, m.accepted, {m.start}, MaxWordLen)

\* the words of at most k symbols that lead from state s of the DFA to an
\* accepted state, a missing transition rejecting
RECURSIVE DFALang(_, _, _)
DFALang(d, s, k) ==
    (IF s \in d.accepted_states THEN {<<>>} ELSE {})
    \cup (IF k = 0 THEN {}
          ELSE UNION {{<<t[2]>> \o w : w \in DFALang(d, t[3], k - 1)} :
                        t \in {u \in d.transitions : u[1] = s /\ u[2] \in ClassIdx}})

DFAWords(d) == DFALang(d, 0, MaxWordLen)

\* the language of a regex, cut at MaxWordLen
ConcatLang(A, B) ==
    UNION {{a \o b : b \in {x \in B : Len(x) <= MaxWordLen - Len(a)}} : a \in A}

\* L \cup LL \cup LLL ... : `last` holds the words found in the last round
RECURSIVE PlusClosure(_, _, _)
PlusClosure(L, acc, last) ==
    LET more == ConcatLang(last, L) \ acc
    IN  IF more = {} THEN acc ELSE PlusClosure(L, acc \cup more, more)

PlusLang(L) == PlusClosure(L, L, L)

RECURSIVE RegLang(_)
RECURSIVE AltLang(_)
RECURSIVE ConcatAllLang(_)
RegLang(r) ==
    CASE r.op = "Atom" -> {<<c>> : c \in r.cls}
      [] r.op = "Alt" -> AltLang(r.rs)
      [] r.op = "Concat" -> ConcatAllLang(r.rs)
      [] r.op = "Some" -> PlusLang(RegLang(r.rs[1]))
      [] r.op = "Optional" -> RegLang(r.rs[1]) \cup {<<>>}
AltLang(rs) == IF rs = <<>> THEN {} ELSE RegLang(Head(rs)) \cup AltLang(Tail(rs))
ConcatAllLang(rs) == IF rs = <<>> THEN {<<>>}
                     ELSE ConcatLang(RegLang(Head(rs)), ConcatAllLang(Tail(rs)))

\* every atom has an index and every Alt a child
RECURSIVE NoEmptyChoice(_)
NoEmptyChoice(r) ==
    /\ r.op = "Atom" => r.cls # {}
    /\ r.op = "Alt" => r.rs # <<>>
    /\ \A i \in 1 .. Len(r.rs) : NoEmptyChoice(r.rs[i])

\* C1: subset construction is sound and complete: the DFA returned by
\* Builder::finish(m), run from state 0 with a missing transition rejecting,
\* accepts a word w of class indices iff the NFA has a path from m.start to
\* m.accepted that spells w.
SubsetConstructionCorrect ==
    pc = "determined" =>
        DFAWords(dfa) = NFAWords(transitions, stack[1])

\* the DFA of a regex with a loop and a choice has been built and accepts
\* some word but not every word
SubsetConstructionWitness ==
    /\ pc = "determined"
    /\ stack[1].regex.op = "Concat"
    /\ dfa.state_count >= 3
    /\ \E w \in DFAWords(dfa) : Len(w) = 3
    /\ \E w \in Words : Len(w) = 3 /\ w \notin DFAWords(dfa)

\* C9 as stated: the accepted state of every fragment the builder returned
\* is reachable from the fragment's start state.
AcceptReachableAlways ==
    \A i \in 1 .. Len(stack) :
        stack[i].accepted \in AnyReach(transitions, {stack[i].start})

\* C9 amended: the accepted state of a returned fragment is reachable from
\* its start state when every atom of the regex has at least one class index
\* and every Alt at least one child.
AcceptReachable ==
    \A i \in 1 .. Len(stack) :
        NoEmptyChoice(stack[i].regex) =>
            stack[i].accepted \in AnyReach(transitions, {stack[i].start})

\* a fragment of a nested regex without empty atoms was returned
AcceptReachableWitness ==
    /\ Len(stack) = 1
    /\ pc = "build"
    /\ RegSize(stack[1].regex) = MaxNodes
    /\ stack[1].regex.op = "Concat"
    /\ NoEmptyChoice(stack[1].regex)

\* C10: the fragment Builder::build(r) has a start-to-accepted path spelling
\* w iff w is in the language of r (Atom: one index of the set, Alt: union,
\* Concat: concatenation, Some: one or more, Optional: zero or one).
ThompsonLanguage ==
    pc = "build" =>
        \A i \in 1 .. Len(stack) :
            NFAWords(transitions, stack[i]) = RegLang(stack[i].regex)

\* a Some node (reusing its child's states) under another operator, next to
\* a sibling fragment in the same transition set
ThompsonLanguageWitness ==
    /\ pc = "build"
    /\ Len(stack) = 2
    /\ stack[1].regex.op = "Optional"
    /\ stack[1].regex.rs[1].op = "Some"
    /\ stack[1].regex.rs[1].rs[1].cls # {}

\* ------------------------------------------------------------ DFA languages
\* the pairs of states of d1 and d2 some common word leads to from a pair of S
RECURSIVE PairReach(_, _, _)
PairReach(d1, d2, S) ==
    LET S2 == S \cup {<<DFAStep(d1, pq[1], c), DFAStep(d2, pq[2], c)>> : pq \in S, c \in ClassIdx}
    IN  IF S2 = S THEN S ELSE PairReach(d1, d2, S2)

\* state s1 of d1 and state s2 of d2 accept the same words
SameLanguage(d1, s1, d2, s2) ==
    \A pq \in PairReach(d1, d2, {<<s1, s2>>}) :
        (pq[1] \in d1.accepted_states) <=> (pq[2] \in d2.accepted_states)

\* C2: minimization preserves the language: the DFA minimize() returns
\* accepts a word from its state 0 iff the DFA it was given does.
MinimizePreservesLanguage ==
    pc = "minimized" => SameLanguage(dfa, 0, mindfa, 0)

\* C3: minimization is optimal: no two distinct states among
\* 0 .. state_count - 1 of the DFA minimize() returns accept the same
\* language, a missing transition counting as rejection.
MinimizeOptimal ==
    pc = "minimized" =>
        \A p, q \in 0 .. mindfa.state_count - 1 :
            p # q => ~SameLanguage(mindfa, p, mindfa, q)

\* the tag of a state of the DFA given to the minimizer; -1: not accepted
TagOf(s) == IF s \in DOMAIN tagged_states THEN tagged_states[s] ELSE -1

\* C4: minimization never merges states that differ in acceptance or tag:
\* the states of the input DFA that end up in one set of the final partition
\* are all non-accepting or all accepting with the same rule tag.
MinimizeKeepsTags ==
    pc = "minimized" =>
        \A s \in DOMAIN resulting.parent_set : \A t \in DOMAIN resulting.parent_set :
            resulting.parent_set[s] = resulting.parent_set[t] =>
                /\ (s \in dfa.accepted_states) = (t \in dfa.accepted_states)
                /\ TagOf(s) = TagOf(t)

\* a tagged DFA whose minimization merged two states of one tag and kept
\* them apart from a state that is not accepted
MinimizeKeepsTagsWitness ==
    /\ pc = "minimized"
    /\ \E s \in DOMAIN tagged_states : \E t \in DOMAIN tagged_states :
          s # t /\ resulting.parent_set[s] = resulting.parent_set[t]
    /\ \E s \in DOMAIN resulting.parent_set : s \notin DOMAIN tagged_states

\* -------------------------------------------- character class properties
Interval(a, b) == a .. (b - 1)
ClassPoints(cls) == UNION {Interval(cls[i].begin, cls[i].end) : i \in 1 .. Len(cls)}

\* the scalar values of the equivalence classes an index list names
IndexedPoints(sp, idx) ==
    UNION {Interval(sp[idx[k]], sp[idx[k] + 1]) : k \in 1 .. Len(idx)}

\* C5: split-point completeness: after classify_chars or RootDef::try_from,
\* every index of every atom names an equivalence class of the table, and
\* the classes an atom names cover exactly the scalar values of its class.
SplitPointComplete ==
    cpc = "classified" =>
        \A r \in 1 .. Len(rules) : \A i \in 1 .. Len(rules[r]) :
            /\ \A k \in 1 .. Len(lexemes[r][i]) :
                  /\ lexemes[r][i][k] \in DOMAIN split_points
                  /\ lexemes[r][i][k] + 1 \in DOMAIN split_points
            /\ IndexedPoints(split_points, lexemes[r][i]) = ClassPoints(rules[r][i])

\* two rules share one table and an atom spans three equivalence classes
SplitPointCompleteWitness ==
    /\ cpc = "classified"
    /\ Len(rules) = 2
    /\ \E r \in 1 .. Len(rules) : \E i \in 1 .. Len(rules[r]) : Len(lexemes[r][i]) >= 3

\* pts is a union of whole classes of the table with the points S
UnionOfWhole(S, pts) ==
    \A a \in S \ {SetMax(S)} :
        LET b == SetMin({x \in S : x > a})
        IN  Interval(a, b) \subseteq pts \/ Interval(a, b) \cap pts = {}

AllAtoms == UNION {SeqRange(rules[r]) : r \in 1 .. Len(rules)}

\* C6: split-point minimality: without any one interior split point of the
\* computed table, some atom's class is no longer a union of whole
\* equivalence classes.
SplitPointMinimal ==
    cpc = "classified" =>
        LET S == {split_points[i] : i \in DOMAIN split_points}
        IN  \A p \in S \ {0, CodeSpaceEnd} :
                \E cls \in AllAtoms : ~UnionOfWhole(S \ {p}, ClassPoints(cls))

NormalForm(cls) ==
    \A i \in 1 .. Len(cls) :
        /\ cls[i].begin < cls[i].end
        /\ cls[i].end <= CodeSpaceEnd
        /\ i < Len(cls) => cls[i].end < cls[i + 1].begin

\* C7: character-class normal form: every class a constructor returned, on
\* its own or while lowering an atom, has ranges with begin < end <=
\* 0x110000, sorted by begin, with ranges[i].end < ranges[i+1].begin.
ClassNormalForm ==
    /\ cpc = "made" => NormalForm(made)
    /\ \A cls \in AllAtoms : NormalForm(cls)

\* C8: From<Vec<UnicodeCharRange>> returns the canonical union: the scalar
\* values of the result are those of the ranges given, no two ranges of the
\* result overlap or touch, and the result is a fixed point of the function.
FromVecCanonicalUnion ==
    (cpc = "made" /\ ctor = "from_vec") =>
        /\ ClassPoints(made) = ClassPoints(given)
        /\ NormalForm(made)
        /\ from_vec(made) = made

\* three ranges given out of order, merged into two
FromVecCanonicalUnionWitness ==
    /\ cpc = "made"
    /\ ctor = "from_vec"
    /\ Len(given) = 3
    /\ given[1].begin > given[2].begin
    /\ Len(made) = 2

\* ------------------------------------------------------ rule conflicts
\* the state a DFA is in after reading w from state 0; -1 once it is stuck
RECURSIVE DFARun(_, _, _)
DFARun(d, s, w) ==
    IF w = <<>> \/ s = -1 THEN s ELSE DFARun(d, DFAStep(d, s, Head(w)), Tail(w))

\* the rules gen_dfa was given, in declaration order
GenRules == stack[1].regex.rs

\* the language of every rule, the words some rule matches, and the DFA
\* state every such word leads to
RuleLangs == [i \in 1 .. Len(GenRules) |-> RegLang(GenRules[i])]
Matched(L) == UNION {L[i] : i \in DOMAIN L}
RunOf(U) == [w \in U |-> DFARun(dfa, 0, w)]

\* the rules that match the word w
Matching(L, w) == {i \in DOMAIN L : w \in L[i]}

\* the DFA states in which the rules of some word number at least k
StatesOfAtLeast(L, run, k) ==
    {run[w] : w \in {v \in DOMAIN run : Cardinality(Matching(L, v)) >= k}}

\* the rules accepted in DFA state t
RulesOf(L, run, t) == {i \in DOMAIN L : \E w \in L[i] : run[w] = t}

ToSet(q) == {q[k] : k \in 1 .. Len(q)}

ClassOf(c, cs) == Cardinality({k \in DOMAIN cs : cs[k] <= c}) - 1

\* the words shorter than w
Shorter(w) == UNION {[1 .. k -> ClassIdx] : k \in 0 .. Len(w) - 1}

\* Ident = 'a'..'z'+ and Keyword = "if": the classes are a-e, f, g-h, i, j-z
IfTable == <<97, 102, 103, 105, 106>>
IfIdent == LET a == atom(0, {}, 0 .. 4) IN some(a.next, a.trans, a)
IfKeyword ==
    LET i == atom(IfIdent.next, IfIdent.trans, {3})
        f == atom(i.next, i.trans, {1})
    IN  concat(f.next, f.trans, <<i, f>>)
IfGen == gen_dfa(IfKeyword.next, IfKeyword.trans, <<IfIdent, IfKeyword>>)
IfErrors == {diagnostic(IfGen, t, IfTable) : t \in conflicting(IfGen)}

LexLess(u, v) ==
    \E i \in 1 .. Len(u) : u[i] < v[i] /\ \A j \in 1 .. i - 1 : u[j] = v[j]

Normalized ==
    (NameWs :> <<"w", "s">>) @@ (NameNo :> <<"n", "o">>) @@ (NameIsNo :> <<"n", "o">>)
UnknownNames == {NameNo, NameIsNo}

\* the unknown class names of an expression, in source order
RECURSIVE NamesOfExpr(_)
RECURSIVE NamesOfConcats(_)
RECURSIVE NamesOfItems(_)
NamesOfAtom(a) ==
    CASE a.kind = "Class" -> IF a.class_name \in UnknownNames THEN <<a.class_name>> ELSE <<>>
      [] a.kind = "Paren" -> NamesOfExpr(a.expr)
      [] OTHER -> <<>>
NamesOfItems(xs) ==
    IF xs = <<>> THEN <<>> ELSE NamesOfAtom(Head(xs).atom) \o NamesOfItems(Tail(xs))
NamesOfConcats(cs) ==
    IF cs = <<>> THEN <<>> ELSE NamesOfItems(Head(cs).items) \o NamesOfConcats(Tail(cs))
NamesOfExpr(e) == NamesOfConcats(e.variants)

\* the unknown class names of all the rules of a LexemeDef, in source order
RECURSIVE NamesOfRules(_)
RECURSIVE NamesOfBody(_)
NamesOfRules(rs) ==
    IF rs = <<>> THEN <<>> ELSE NamesOfExpr(Head(rs).body) \o NamesOfRules(Tail(rs))
NamesOfBody(d) ==
    IF d = <<>> THEN <<>> ELSE NamesOfRules(Head(d).body) \o NamesOfBody(Tail(d))

\* what was converted: the expression, or the rules of the LexemeDef
NamesConverted == IF lowered.of = "expr" THEN NamesOfExpr(syn[1].tree) ELSE NamesOfBody(body)

\* C14: converting an expression or a LexemeDef with k >= 1 atoms that name
\* unknown properties returns an error and nothing else, with exactly k
\* diagnostics in source order, each with the original and the normalized
\* spelling of its name.
UnknownPropertiesAccumulated ==
    (spc = "done" /\ NamesConverted # <<>>) =>
        /\ ~lowered.res.panic
        /\ ~lowered.res.ok
        /\ lowered.res.val = <<>>
        /\ lowered.res.errs =
               [i \in 1 .. Len(NamesConverted) |->
                   [original |-> NamesConverted[i],
                    normalized |-> Normalized[NamesConverted[i]]]]

\* the same without the inputs on which the conversion panics
AccumulatedUnlessPanicked ==
    (spc = "done" /\ NamesConverted # <<>> /\ ~lowered.res.panic) =>
        /\ ~lowered.res.ok
        /\ lowered.res.val = <<>>
        /\ lowered.res.errs =
               [i \in 1 .. Len(NamesConverted) |->
                   [original |-> NamesConverted[i],
                    normalized |-> Normalized[NamesConverted[i]]]]


\* the elements of a Partitions and the sets they are in
ElemsOf(P) == 0 .. VecLen(P.parent_set) - 1
SameSet(P, x, y) == P.parent_set[x] = P.parent_set[y]
InPivot(x) == \E i \in 1 .. Len(pivot) : pivot[i] = x

\* C15: after refine_with(pivot), for a pivot without duplicates, two
\* elements are in the same set exactly when they were in the same set
\* before the call and are both in the pivot or both out of it: no set is
\* merged and no set is split in any other way.
RefinedExactlyByPivot ==
    /\ last_call # "panicked"
    /\ last_call = "refine_with" =>
         /\ ElemsOf(ptn) = ElemsOf(prev)
         /\ \A x, y \in ElemsOf(ptn) :
                SameSet(ptn, x, y) <=>
                    /\ SameSet(prev, x, y)
                    /\ InPivot(x) <=> InPivot(y)

\* a second refine_with has split one of several sets by a pivot that holds
\* a part of it, and has left another set alone
RefinedExactlyByPivotWitness ==
    /\ last_call = "refine_with"
    /\ ncalls = 2
    /\ \E x, y \in ElemsOf(ptn) :
           SameSet(prev, x, y) /\ InPivot(x) /\ ~InPivot(y)
    /\ \E x, y \in ElemsOf(ptn) :
           ~SameSet(prev, x, y) /\ ~InPivot(x) /\ ~InPivot(y)

\* the sets of a Partitions, the elements of a set, and a set cut by the
\* pivot of the last refine_with
IdsOf(P) == {P.parent_set[x] : x \in ElemsOf(P)}
Members(P, a) == {x \in ElemsOf(P) : P.parent_set[x] = a}
InsidePivot(a) == {x \in Members(prev, a) : InPivot(x)}
OutsidePivot(a) == Members(prev, a) \ InsidePivot(a)
SplitInTwo == {a \in IdsOf(prev) : InsidePivot(a) # {} /\ OutsidePivot(a) # {}}
NewlyFormed == {formed[i] : i \in 1 .. Len(formed)}

\* C16 as stated: whenever refine_with splits a set A into two non-empty
\* pieces, the piece with fewer elements keeps A's id and the piece with
\* more elements receives the newly allocated id.
SmallerPieceKeepsId ==
    last_call = "refine_with" =>
        \A a \in SplitInTwo :
        \A small, large \in {InsidePivot(a), OutsidePivot(a)} :
            Cardinality(small) < Cardinality(large) =>
                /\ \A x \in small : ptn.parent_set[x] = a
                /\ \A x \in large : ptn.parent_set[x] >= set_count(prev)

\* C16: whenever refine_with splits a set A into two non-empty pieces, the
\* piece outside the pivot keeps A's id and the piece inside the pivot
\* receives the newly allocated id, whatever their sizes; the id the call
\* returns for A is that of the piece with fewer elements, and A's own id
\* when the pieces are equally large.
PivotPieceGetsNewId ==
    last_call = "refine_with" =>
        \A a \in SplitInTwo :
            /\ \A x \in OutsidePivot(a) : ptn.parent_set[x] = a
            /\ \E new_a \in set_count(prev) .. set_count(ptn) - 1 :
                   /\ \A x \in InsidePivot(a) : ptn.parent_set[x] = new_a
                   /\ IF Cardinality(InsidePivot(a)) < Cardinality(OutsidePivot(a))
                      THEN new_a \in NewlyFormed /\ a \notin NewlyFormed
                      ELSE a \in NewlyFormed /\ new_a \notin NewlyFormed

\* a refine_with has cut one element off a set of three: the smaller piece
\* is the one inside the pivot
PivotPieceGetsNewIdWitness ==
    /\ last_call = "refine_with"
    /\ \E a \in SplitInTwo :
           /\ Cardinality(InsidePivot(a)) = 1
           /\ Cardinality(OutsidePivot(a)) = 2
           /\ \A x \in InsidePivot(a) : ptn.parent_set[x] # a

\* the parts of a Partitions that hold no element
EmptyParts(P) == {a \in DOMAIN P.partitions : PartIsEmpty(P.partitions[a])}

\* C17: after refine_with calls followed by simplify(), no set is empty,
\* set_count() is the number of non-empty sets, the set ids are exactly
\* 0 .. set_count() - 1, and which elements share a set is unchanged.
SimplifyCompacts ==
    last_call = "simplify" =>
        /\ EmptyParts(ptn) = {}
        /\ set_count(ptn) = Cardinality(IdsOf(ptn))
        /\ IdsOf(ptn) = 0 .. set_count(ptn) - 1
        /\ \A x, y \in ElemsOf(ptn) : SameSet(ptn, x, y) <=> SameSet(prev, x, y)

\* what simplify() does achieve: the non-empty sets are numbered from 0
\* without a gap, the empty parts follow them, and which elements share a
\* set is unchanged
SimplifyRenumbers ==
    last_call = "simplify" =>
        /\ IdsOf(ptn) = 0 .. Cardinality(IdsOf(ptn)) - 1
        /\ EmptyParts(ptn) = DOMAIN ptn.partitions \ IdsOf(ptn)
        /\ set_count(ptn) = set_count(prev)
        /\ \A x, y \in ElemsOf(ptn) : SameSet(ptn, x, y) <=> SameSet(prev, x, y)

\* the rules of a LexemeDef as declared: one entry for every start condition
\* listed for a rule (the default one for a rule without a prefix), in the
\* order of the rules and, for one rule, of its list
ListedFor(wc) ==
    IF ~wc.start_condition.some THEN <<[cond |-> "start", target |-> ""]>>
    ELSE [i \in 1 .. Len(wc.start_condition.condition) |->
             [cond |-> wc.start_condition.condition[i].begin,
              target |-> IF wc.start_condition.condition[i].trans
                         THEN wc.start_condition.condition[i].end ELSE ""]]
RECURSIVE DeclaredIn(_, _)
DeclaredIn(wc, k) ==
    IF k > Len(wc.body) THEN <<>>
    ELSE [i \in 1 .. Len(ListedFor(wc)) |->
             [cond |-> ListedFor(wc)[i].cond,
              lexeme_type |-> wc.body[k].name,
              target_start_condition |-> ListedFor(wc)[i].target]]
         \o DeclaredIn(wc, k + 1)
RECURSIVE Declared(_)
Declared(d) == IF d = <<>> THEN <<>> ELSE DeclaredIn(Head(d), 1) \o Declared(Tail(d))
RECURSIVE Under(_, _)
Under(es, c) ==
    IF es = <<>> THEN <<>>
    ELSE (IF Head(es).cond = c
          THEN <<[lexeme_type |-> Head(es).lexeme_type,
                  target_start_condition |-> Head(es).target_start_condition]>>
          ELSE <<>>) \o Under(Tail(es), c)
GroupOf(v) ==
    [i \in 1 .. Len(v) |-> [lexeme_type |-> v[i].lexeme_type,
                            target_start_condition |-> v[i].target_start_condition]]
SCIdents == {DEFAULT, SCIdent("start"), SCIdent("b")}

\* C18: RootDef::try_from puts every rule, in declaration order, into exactly
\* the groups of the start conditions listed for it, with the target written
\* for that entry; a rule without a prefix goes to the default group only;
\* keys are compared by name with the default condition equal to `start`, so
\* a rule under <start> lands in the group of the rules without a prefix; and
\* equal keys hash equally.
RulesGroupedByStartCondition ==
    /\ \A k1, k2 \in SCIdents : sc_eq(k1, k2) => sc_hash(k1) = sc_hash(k2)
    /\ sc_eq(DEFAULT, SCIdent("start")) /\ ~sc_eq(DEFAULT, SCIdent("b"))
    /\ (lowered.of = "def" /\ lowered.res.ok) =>
         \A lex \in {lowered.res.val.lexemes} : \A es \in {Declared(body)} :
             /\ \A i, j \in 1 .. Len(lex) :
                    sc_str(lex[i].key) = sc_str(lex[j].key) => i = j
             /\ {sc_str(lex[i].key) : i \in 1 .. Len(lex)}
                    = {es[i].cond : i \in 1 .. Len(es)}
             /\ \A i \in 1 .. Len(lex) :
                    GroupOf(lex[i].value) = Under(es, sc_str(lex[i].key))

\* a rule without a prefix and a rule under <b, start -> start> were
\* aggregated: the default group holds both, the second with its target
RulesGroupedByStartConditionWitness ==
    /\ lowered.of = "def"
    /\ lowered.res.ok
    /\ Len(body) = 2
    /\ ~body[1].start_condition.some
    /\ body[2].start_condition = StartCondition(<<Simple("b"), Trans("start", "start")>>)
    /\ Len(lowered.res.val.lexemes) = 2
    /\ \E i \in 1 .. 2 :
           /\ ~lowered.res.val.lexemes[i].key.some
           /\ GroupOf(lowered.res.val.lexemes[i].value)
                  = <<[lexeme_type |-> 1, target_start_condition |-> ""],
                      [lexeme_type |-> 2, target_start_condition |-> "start"]>>

\* the text with parentheses around a child exactly when it binds less
\* tightly than its context
RECURSIVE Parenthesized(_, _)
Parenthesized(r, n) ==
    LET inner == CASE r.op = "Atom" -> <<AtomTok(r.cls)>>
                   [] r.op \in {"Alt", "Concat"} ->
                        LET sep == IF r.op = "Alt" THEN " | " ELSE " "
                            RECURSIVE join(_)
                            join(i) == IF i > Len(r.rs) THEN <<>>
                                       ELSE (IF i > 1 THEN <<Tok(sep)>> ELSE <<>>)
                                            \o Parenthesized(r.rs[i], Level(r)) \o join(i + 1)
                        IN  join(1)
                   [] r.op = "Some" -> Parenthesized(r.rs[1], 2) \o <<Tok("+")>>
                   [] r.op = "Optional" -> Parenthesized(r.rs[1], 2) \o <<Tok("?")>>
    IN  IF Level(r) < n THEN <<Tok("(")>> \o inner \o <<Tok(")")>> ELSE inner

\* reading a text by the grammar  alt := concat (" | " concat)*,
\* concat := postfix (" " postfix)*, postfix := primary ("+" | "?")*,
\* primary := atom | "(" alt ")".  A reader is at position i of the text t
\* and returns the tree, the next position and whether it could read.
Unread == [ok |-> FALSE, tree |-> Atom({}), next |-> 0]
Read(tree, i) == [ok |-> TRUE, tree |-> tree, next |-> i]
At(t, i, s) == i <= Len(t) /\ t[i].text = s

RECURSIVE ReadAlt(_, _)
RECURSIVE ReadAltMore(_, _, _)
RECURSIVE ReadConcat(_, _)
RECURSIVE ReadConcatMore(_, _, _)
RECURSIVE ReadPostfixMore(_, _, _)
RECURSIVE ReadPrimary(_, _)
ReadPrimary(t, i) ==
    IF At(t, i, "{}") THEN Read(Atom(t[i].atom), i + 1)
    ELSE IF At(t, i, "(")
         THEN LET e == ReadAlt(t, i + 1)
              IN  IF e.ok /\ At(t, e.next, ")") THEN Read(e.tree, e.next + 1) ELSE Unread
         ELSE Unread
ReadPostfixMore(t, i, tree) ==
    IF At(t, i, "+") THEN ReadPostfixMore(t, i + 1, Some(tree))
    ELSE IF At(t, i, "?") THEN ReadPostfixMore(t, i + 1, Optional(tree))
    ELSE Read(tree, i)
ReadConcatMore(t, i, items) ==
    LET p == ReadPrimary(t, i)
        x == ReadPostfixMore(t, p.next, p.tree)
    IN  IF ~p.ok THEN Unread
        ELSE IF At(t, x.next, " ") THEN ReadConcatMore(t, x.next + 1, Append(items, x.tree))
        ELSE Read(Append(items, x.tree), x.next)
ReadConcat(t, i) ==
    LET c == ReadConcatMore(t, i, <<>>)
    IN  IF ~c.ok THEN Unread
        ELSE Read(IF Len(c.tree) = 1 THEN c.tree[1] ELSE Concat(c.tree), c.next)
ReadAltMore(t, i, variants) ==
    LET c == ReadConcat(t, i)
    IN  IF ~c.ok THEN Unread
        ELSE IF At(t, c.next, " | ") THEN ReadAltMore(t, c.next + 1, Append(variants, c.tree))
        ELSE Read(Append(variants, c.tree), c.next)
ReadAlt(t, i) ==
    LET a == ReadAltMore(t, i, <<>>)
    IN  IF ~a.ok THEN Unread
        ELSE Read(IF Len(a.tree) = 1 THEN a.tree[1] ELSE Alt(a.tree), a.next)
Reread(t) ==
    LET e == ReadAlt(t, 1)
    IN  IF e.ok /\ e.next = Len(t) + 1 THEN e ELSE Unread

\* C19: for every regex tree, Display joins Alt children with " | " and
\* Concat children with " ", appends the postfix operator after its operand,
\* and puts parentheses around a child exactly when the child's operator
\* binds less tightly than its context, so that re-reading the printed text
\* gives the same tree.
PrettyRespectsPrecedence ==
    pc = "printed" =>
        /\ printed.text = Parenthesized(printed.of, 0)
        /\ Reread(printed.text).ok
        /\ Reread(printed.text).tree = printed.of

\* a tree as RegEx::try_from makes them from an expression without string
\* literals: every Alt and Concat has two children or more, no Alt lies
\* directly under an Alt and no Concat directly under a Concat
RECURSIVE Canonical(_)
Canonical(r) ==
    /\ r.op \in {"Alt", "Concat"} => Len(r.rs) >= 2
    /\ \A i \in 1 .. Len(r.rs) :
           /\ r.op \in {"Alt", "Concat"} => r.rs[i].op # r.op
           /\ Canonical(r.rs[i])

\* what does hold: on such a tree the text has exactly the parentheses
\* asked for and reads back as the same tree
PrettyOnCanonicalTrees ==
    (pc = "printed" /\ Canonical(printed.of)) =>
        /\ printed.text = Parenthesized(printed.of, 0)
        /\ Reread(printed.text).ok
        /\ Reread(printed.text).tree = printed.of

\* the example of the claim: Optional(Some(Concat[l, e])) is ( l e ) + ?
PrettyExample ==
    to_string(Optional(Some(Concat(<<Atom({0}), Atom({1})>>))))
        = <<Tok("("), AtomTok({0}), Tok(" "), AtomTok({1}), Tok(")"), Tok("+"), Tok("?")>>

\* the start conditions a LexemeDef declares: those a rule is listed under
\* and those named as the target of a transition
RECURSIVE DeclaredConditions(_)
DeclaredConditions(d) ==
    IF d = <<>> THEN {}
    ELSE {ListedFor(Head(d))[i].cond : i \in 1 .. Len(ListedFor(Head(d)))}
         \cup ({ListedFor(Head(d))[i].target : i \in 1 .. Len(ListedFor(Head(d)))} \ {""})
         \cup DeclaredConditions(Tail(d))

\* the conditions RootDef holds a rule list for
GroupKeys(lex) == {sc_str(lex[i].key) : i \in 1 .. Len(lex)}

\* gen_dfa on no rule at all
GenDfaOfNoRule == gen_dfa(0, {}, <<>>)

\* C20: an empty rule set is not fatal: a start condition that is declared,
\* for instance only as the target of a transition, but has no rule active
\* in it gets a DFA that rejects every input; gen_dfa on an empty rule list
\* returns Ok with a DFA without accepting state.
EmptyRuleSetNonFatal ==
    /\ ~GenDfaOfNoRule.conflict
    /\ GenDfaOfNoRule.dfa.accepted_states = {}
    /\ (lowered.of = "def" /\ lowered.res.ok) =>
           DeclaredConditions(body) \subseteq GroupKeys(lowered.res.val.lexemes)

\* what does hold for gen_dfa and the minimizers on an empty rule list: no
\* conflict, no panic, no accepting state before or after minimization
EmptyRuleListRejects ==
    (pc # "build" /\ stack[1].regex = Alt(<<>>)) =>
        /\ pc \notin {"conflict", "panicked"}
        /\ dfa.accepted_states = {}
        /\ DOMAIN tagged_states = {}
        /\ pc = "minimized" => mindfa.accepted_states = {} /\ mindfa.state_count = 1

\* the positions of back_buffer a part spans
SpanOf(p) == p.start .. (p.end - 1)

\* C25: after new(n) and any sequence of refine_with, simplify and
\* promote_to_head calls, back_buffer is a permutation of 0 .. n - 1,
\* positions[back_buffer[i]] = i for every i, every element lies inside the
\* span of its parent set, and the spans of the non-empty sets are pairwise
\* disjoint and together cover [0, n).
RepresentationInvariant ==
    last_call # "none" =>
        \A n \in {VecLen(ptn.back_buffer)} :
            /\ last_call # "panicked"
            /\ {ptn.back_buffer[i] : i \in 0 .. n - 1} = 0 .. n - 1
            /\ DOMAIN ptn.positions = 0 .. n - 1
            /\ DOMAIN ptn.parent_set = 0 .. n - 1
            /\ \A i \in 0 .. n - 1 : ptn.positions[ptn.back_buffer[i]] = i
            /\ \A e \in 0 .. n - 1 :
                   /\ ptn.parent_set[e] \in DOMAIN ptn.partitions
                   /\ ptn.positions[e] \in SpanOf(ptn.partitions[ptn.parent_set[e]])
            /\ \A a \in DOMAIN ptn.partitions :
                   /\ 0 <= ptn.partitions[a].start
                   /\ ptn.partitions[a].start <= ptn.partitions[a].end
                   /\ ptn.partitions[a].end <= n
            /\ \A i \in 0 .. n - 1 :
                   Cardinality({a \in DOMAIN ptn.partitions :
                                   i \in SpanOf(ptn.partitions[a])}) = 1

\* a second refine_with was made on a buffer the first call had reordered;
\* it split one set and took the whole of another, which is left behind as
\* an empty part
RepresentationInvariantWitness ==
    /\ ncalls = 2
    /\ last_call = "refine_with"
    /\ EmptyParts(ptn) # {}
    /\ \E i \in DOMAIN prev.back_buffer : prev.back_buffer[i] # i
    /\ Cardinality(SplitInTwo) = 1
    /\ Len(formed) = 2

\* C24: DFA::minimize returns normally for every DFA of Builder::finish:
\* every entry of the pending worklist denotes a non-empty stretch of the
\* partition buffer, and no step reads outside the buffer or fails an
\* assertion.
MinimizeReturnsNormally ==
    /\ pc # "panicked"
    /\ pc = "minimizing" =>
           \A i \in 1 .. Len(pending) :
               /\ 0 <= pending[i].start
               /\ pending[i].start < pending[i].end
               /\ pending[i].end <= VecLen(resulting.back_buffer)

\* what does hold: minimize panics only after a refine_with whose pivot took
\* the whole of a set and so left an empty part behind
PanicNeedsEmptyPart ==
    pc = "panicked" => EmptyParts(resulting) # {}

\* DFA::minimize as one function, the HashMap of refine_with being iterated
\* in ascending order of the set ids every time: the reference run.  multi
\* counts the pivots that touched two sets or more.
NoRun == [ok |-> FALSE, dfa |-> NoDFA, multi |-> 0]
RECURSIVE MinimizeAscending(_, _, _, _, _, _)
MinimizeAscending(d, P, q, s, i, multi) ==
    IF s # -1
    THEN IF i = Len(d.input_set) THEN MinimizeAscending(d, P, q, -1, 0, multi)
         ELSE LET x == generic_union(d, set_iter(P, s), d.input_set[i + 1])
                  R == refine_with(P, x, SortedSeq(AffectedSets(P, x)))
              IN  IF ~R.ok THEN NoRun
                  ELSE MinimizeAscending(d, R.p, push_newly_formed(q, R.p, R.newly_formed),
                                         s, i + 1,
                                         IF Len(R.newly_formed) >= 2 THEN multi + 1 ELSE multi)
    ELSE IF q = <<>>
         THEN LET P1 == simplify(P)
              IN  [ok |-> TRUE, multi |-> multi,
                   dfa |-> minimized(d, promote_to_head(P1, P1.parent_set[0]))]
    ELSE IF q[1].start \notin DOMAIN P.back_buffer THEN NoRun
    ELSE LET t == P.parent_set[P.back_buffer[q[1].start]]
             front == [q[1] EXCEPT !.start = P.partitions[t].end]
         IN  MinimizeAscending(d, P, IF PartIsEmpty(front) THEN Tail(q) ELSE <<front>> \o Tail(q),
                               t, 0, multi)
MinimizeReference(d) ==
    LET R == refine_with(new(d.state_count), SortedSeq(d.accepted_states),
                         SortedSeq(IF d.accepted_states = {} THEN {} ELSE {0}))
    IN  MinimizeAscending(d, R.p, PartsOf(R.p, R.newly_formed), -1, 0, 0)

\* C26: two runs of DFA::minimize on the same DFA return identical DFAs,
\* whatever order the HashMap of affected sets inside refine_with is
\* iterated in: every run returns what the run in ascending order returns.
MinimizeDeterministic ==
    pc = "minimized" =>
        \A r \in {MinimizeReference(dfa)} : r.ok /\ mindfa = r.dfa

\* minimize returned on a DFA on which a pivot touched two sets or more
MinimizeDeterministicWitness ==
    /\ pc = "minimized"
    /\ MinimizeReference(dfa).multi >= 1

\* ------------------------------------------------ lowering and panics
\* whether an expression holds a Concat without items, at any depth
RECURSIVE EmptyConcatInExpr(_)
RECURSIVE EmptyConcatInConcats(_)
RECURSIVE EmptyConcatInItems(_)
EmptyConcatInExpr(e) == EmptyConcatInConcats(e.variants)
EmptyConcatInConcats(cs) ==
    /\ cs # <<>>
    /\ \/ Head(cs).items = <<>>
       \/ EmptyConcatInItems(Head(cs).items)
       \/ EmptyConcatInConcats(Tail(cs))
EmptyConcatInItems(xs) ==
    /\ xs # <<>>
    /\ \/ Head(xs).atom.kind = "Paren" /\ EmptyConcatInExpr(Head(xs).atom.expr)
       \/ EmptyConcatInItems(Tail(xs))

\* C27: RegEx::try_from of every expression the parsers accept, also one
\* with an alternative without items, returns Ok or Err and never panics.
LoweringNeverPanics ==
    (spc = "done" /\ lowered.of = "expr") => ~lowered.res.panic

\* what does hold: the conversion of an expression panics exactly when some
\* Concat of it, nested or not, has no items
LoweringPanicsOnEmptyConcat ==
    (spc = "done" /\ lowered.of = "expr") =>
        (lowered.res.panic <=> EmptyConcatInExpr(syn[1].tree))

\* ------------------------------------------------ RingBuffer on its own
\* The input holds the characters 1 .. MaxInput; push and push_n take the
\* next ones from it.  MaxN bounds the argument n of push_n and pop_n.
MaxInput == 5
MaxN == 3

\* the builds a call whose subtraction underflows may be running in
Checks ==
    IF overflow_checks = "unknown" THEN BOOLEAN ELSE {overflow_checks = "on"}
Underflows == guard(ring) > ring.front
ChecksKnown(checks) ==
    overflow_checks' = IF ~Underflows THEN overflow_checks
                       ELSE IF checks THEN "on" ELSE "off"

\* the call `of` returned R, or panicked
RingReturns(of, R) ==
    /\ ret' = [of |-> of, ok |-> R.ok, val |-> R.val]
    /\ ring' = IF R.ok THEN R.ring ELSE ring
    /\ UNCHANGED <<autoVars, classVars, synVars, partVars, fmtVars, exceptBuf>>

DropN(q, n) == SubSeq(q, Min(n, Len(q)) + 1, Len(q))
InputChars(first, k) == [i \in 1 .. k |-> first + i - 1]

Push ==
    /\ ret.ok
    /\ ring.front < MaxInput
    /\ \E checks \in Checks :
          /\ ChecksKnown(checks)
          /\ \E R \in {push(ring, ring.front + 1, checks)} :
                /\ RingReturns("push", R)
                /\ fifo' = IF R.ok THEN Append(fifo, ring.front + 1) ELSE fifo
    /\ UNCHANGED <<overrun, nested, scopes>>

PushN ==
    /\ ret.ok
    /\ \E n \in 0 .. MaxN, checks \in Checks :
          /\ ChecksKnown(checks)
          /\ \E R \in {push_n(ring, n, ring.front + 1, Max(MaxInput - ring.front, 0), checks)} :
                /\ RingReturns("push_n", R)
                /\ fifo' = IF R.ok THEN fifo \o InputChars(ring.front + 1, R.val) ELSE fifo
    /\ UNCHANGED <<overrun, nested, scopes>>

\* pop(), on the empty buffer too; current is let run one past front
Pop ==
    /\ ret.ok
    /\ ring.current <= ring.front
    /\ RingReturns("pop", pop(ring))
    /\ fifo' = DropN(fifo, 1)
    /\ overrun' = (overrun \/ ring.current >= ring.front)
    /\ UNCHANGED <<overflow_checks, nested, scopes>>

PopN ==
    /\ ret.ok
    /\ \E n \in 0 .. MaxN :
          /\ RingReturns("pop_n", pop_n(ring, n))
          /\ fifo' = DropN(fifo, n)
    /\ UNCHANGED <<overflow_checks, overrun, nested, scopes>>

Peek ==
    /\ ret.ok
    /\ RingReturns("peek", Done(ring, peek(ring)))
    /\ UNCHANGED <<fifo, overflow_checks, overrun, nested, scopes>>

NextRing ==
    \/ Push
    \/ PushN
    \/ Pop
    \/ PopN
    \/ Peek

SpecRing == Init /\ [][NextRing]_vars

\* C21: after any sequence of push, push_n, pop, pop_n and peek on a buffer
\* without anchor, pop on the empty buffer included, no call has panicked
\* and iter() yields exactly the characters pushed and not yet popped, in
\* the order they were pushed.
RingBufferFifo ==
    /\ ret.ok
    /\ iter(ring) = fifo

\* what does hold: as long as no pop was made on the empty buffer the
\* buffer is a FIFO, through every growth and wrap-around
RingBufferFifoUnlessOverrun ==
    ~overrun => (ret.ok /\ ring.current <= ring.front /\ iter(ring) = fifo)

\* ------------------------------------------- buffer/anchor.rs: AnchorBuffer
\* An AnchorBuffer borrows the buffer it was made on, so the scopes alive
\* are nested and only the innermost is used; MaxScopes bounds the depth.
MaxScopes == 2
Innermost == scopes[Len(scopes)]

\* AnchorBuffer::new: the anchor is put at current_index(), the one it
\* replaces is kept in the AnchorBuffer; idx records where the scope starts
AnchorNew ==
    /\ ret.ok
    /\ Len(scopes) < MaxScopes
    /\ \E R \in {set_anchor(ring, ring.current)} :
          /\ RingReturns("anchor", R)
          /\ scopes' = Append(scopes, [anchor |-> R.val, idx |-> ring.current])
    /\ nested' = (nested \/ \E k \in 1 .. Len(scopes) : ring.current > scopes[k].idx)
    /\ UNCHANGED <<fifo, overflow_checks, overrun>>

\* Buffer::revert on the innermost AnchorBuffer: the characters from the
\* anchor onward are to be read again
AnchorRevert ==
    /\ ret.ok
    /\ scopes # <<>>
    /\ RingReturns("revert", revert(ring))
    /\ fifo' = InputChars(ring.anchor + 1, Max(ring.front - ring.anchor, 0))
    /\ UNCHANGED <<overflow_checks, overrun, nested, scopes>>

\* Drop for AnchorBuffer
AnchorDrop ==
    /\ ret.ok
    /\ scopes # <<>>
    /\ RingReturns("drop", set_anchor(ring, Innermost.anchor))
    /\ scopes' = SubSeq(scopes, 1, Len(scopes) - 1)
    /\ UNCHANGED <<fifo, overflow_checks, overrun, nested>>

NextAnchor ==
    \/ Push
    \/ PushN
    \/ Pop
    \/ PopN
    \/ Peek
    \/ AnchorNew
    \/ AnchorRevert
    \/ AnchorDrop

SpecAnchor == Init /\ [][NextAnchor]_vars

\* the characters from index idx onward are the ones pushed there
Intact(idx) == \A i \in idx .. ring.front - 1 : at(ring, i) = i + 1

AnchorsIntact ==
    /\ ret.ok
    /\ \A k \in 1 .. Len(scopes) : Intact(scopes[k].idx)

\* C22: while an AnchorBuffer is alive no call panics and the characters
\* from its anchor index onward are never overwritten, at every nesting
\* depth, also while an inner AnchorBuffer has replaced the anchor; here on
\* the runs without a pop on the empty buffer.
AnchorsProtect ==
    ~overrun => AnchorsIntact

\* what does hold: the scopes are protected, through growth and
\* wrap-around, until one is opened further on inside another
UnnestedProtected ==
    (~overrun /\ ~nested) => AnchorsIntact

\* dropping a scope puts back the anchor it replaced and leaves current
\* where it is; revert puts current at the anchor of the innermost scope
AnchorRestored ==
    ret.ok => ring.anchor = IF scopes = <<>> THEN None ELSE Innermost.idx
DropKeepsCurrent ==
    [][(ret'.of = "drop" /\ ret'.ok) => ring'.current = ring.current]_vars
RevertToAnchor ==
    [][(ret'.of = "revert" /\ ret'.ok) => ring'.current = Innermost.idx]_vars

\* -------------------------------------------------- IterStream calls
StreamReturns(of, R, n) ==
    /\ yielded' = [of |-> of, ok |-> R.ok, val |-> R.val, n |-> n,
                   buffered |-> Len(iter_stream.buffer)]
    /\ iter_stream' = R.stream
    /\ upcoming' = Upcoming(iter_stream)
    /\ UNCHANGED <<autoVars, classVars, synVars, partVars, fmtVars, exceptStream>>

\* a stream from an iterator that yields 1, 2, ..., k
StreamFrom ==
    /\ yielded.of = "from"
    /\ iter_stream = IterStream_from(<<>>)
    /\ \E k \in 1 .. MaxStream :
         StreamReturns("from", [ok |-> TRUE, val |-> None,
                                stream |-> IterStream_from([i \in 1 .. k |-> i])], k)

StreamNext == StreamReturns("next", IterStream_next(iter_stream), 0)

StreamPutBack ==
    /\ Len(iter_stream.buffer) < MaxLookahead
    /\ \E x \in StreamItems :
         StreamReturns("put_back",
                       [ok |-> TRUE, val |-> None,
                        stream |-> IterStream_put_back(iter_stream, x)], x)

StreamPeek ==
    \E n \in 0 .. MaxPeek : StreamReturns("peek", IterStream_peek(iter_stream, n), n)

NextStream == StreamFrom \/ StreamNext \/ StreamPutBack \/ StreamPeek
SpecStream == Init /\ [][NextStream]_vars

\* C23: peek(n) never panics, returns the item that the (n+1)-th following
\* next() would return, or None when fewer than n+1 items remain, and
\* leaves the sequence of the later next() calls as it was.
PeekLooksAhead ==
    yielded.of = "peek" =>
        /\ yielded.ok
        /\ yielded.val = IF yielded.n < Len(upcoming)
                         THEN upcoming[yielded.n + 1] ELSE None
        /\ Upcoming(iter_stream) = upcoming

\* What peek(n) does: it answers from the buffer when more than n items
\* were buffered already, returns None when fewer than n items remain,
\* and panics in every other case; the sequence is kept in all of them.
PeekActual ==
    yielded.of = "peek" =>
        /\ Upcoming(iter_stream) = upcoming
        /\ yielded.buffered > yielded.n =>
               yielded.ok /\ yielded.val = upcoming[yielded.n + 1]
        /\ Len(upcoming) < yielded.n => yielded.ok /\ yielded.val = None
        /\ (yielded.buffered <= yielded.n /\ yielded.n <= Len(upcoming)) => ~yielded.ok

\* next() and put_back(x) are a queue with a front door.
NextTakesFirst ==
    yielded.of = "next" =>
        /\ yielded.val = IF upcoming = <<>> THEN None ELSE Head(upcoming)
        /\ Upcoming(iter_stream) = IF upcoming = <<>> THEN <<>> ELSE Tail(upcoming)
PutBackIsNext ==
    yielded.of = "put_back" => Upcoming(iter_stream) = <<yielded.n>> \o upcoming

\* ----------------------------------------------------- the layout pass
Count(b) == IF b THEN 1 ELSE 0

LayoutReturns(R) ==
    /\ laid' = [of |-> "next", ok |-> R.ok, val |-> R.val, curly |-> R.curly]
    /\ augmented' = R.it
    /\ phantoms' = [opened |-> phantoms.opened + Count(R.val = PhantomOpenCurlyBracket),
                    closed |-> phantoms.closed + Count(R.val = PhantomCloseCurlyBracket),
                    zero |-> phantoms.zero \/
                             (R.curly.seen /\ R.curly.pushed /\ R.curly.n = 0)]
    /\ UNCHANGED <<autoVars, classVars, synVars, partVars, fmtVars, exceptLayout>>

\* AugmentedLexemeIterator::new on a file that is not empty
LayoutNew ==
    /\ laid.of = "from"
    /\ \E q \in {r \in Sources(MaxLexemes) : r # <<>> /\ InOrder(r)} :
         /\ source' = q
         /\ augmented' = Augmented_from(Enriched_from(q))
    /\ laid' = [laid EXCEPT !.of = "new"]
    /\ UNCHANGED <<phantoms, autoVars, classVars, synVars, partVars, fmtVars, exceptLayout>>

\* one call of next(), as long as the iterator has not ended or panicked
LayoutNext ==
    /\ laid.ok
    /\ laid.of = "next" => laid.val # NoAugmented
    /\ \E R \in {Augmented_next(augmented)} : LayoutReturns(R) /\ UNCHANGED source

NextLayout == LayoutNew \/ LayoutNext
SpecLayout == Init /\ [][NextLayout]_vars

Explicit == \E i \in 1 .. Len(source) : source[i].lexeme \in {"{", "}"}
AtEnd == laid.of = "next" /\ laid.ok /\ laid.val = NoAugmented

\* the rule for {n} as the Haskell report has it
CurlyRule ==
    laid.curly.seen =>
        (laid.curly.pushed <=> IF laid.curly.m = None THEN laid.curly.n > 0
                               ELSE laid.curly.n > laid.curly.m)
NeverPanics == ~Explicit => laid.ok
Balanced == (~Explicit /\ AtEnd) => phantoms.opened = phantoms.closed

CurlyActual ==
    laid.curly.seen =>
        (laid.curly.pushed <=> (laid.curly.m = None \/ laid.curly.n > laid.curly.m))
LayoutSoundUnlessZero ==
    (~Explicit /\ ~phantoms.zero) =>
        /\ laid.ok
        /\ \A i \in 1 .. Len(augmented.indents) : augmented.indents[i] > 0
        /\ AtEnd => phantoms.opened = phantoms.closed
ZeroOnlyOnNoContext ==
    (laid.curly.seen /\ laid.curly.pushed /\ laid.curly.n = 0) => laid.curly.m = None

\* ------------------------------------------------ Scanner::anchored
\* one call of anchored(f), f being any rule of any Either type
AnchoredCall(of, et, f) ==
    /\ attempt' = [of |-> of, before |-> scanner, ran |-> Call(scanner, f),
                   value |-> f.value]
    /\ scanner' = anchored(scanner, f)
    /\ UNCHANGED <<autoVars, classVars, synVars, partVars, fmtVars, exceptScan>>

Anchored ==
    /\ many_loop.at # "loop"
    /\ \E et \in EitherTypes : \E f \in Doings(scanner, et) :
         AnchoredCall("anchored", et, f)
    /\ UNCHANGED many_loop

\* a new scanner on the same text
ScannerNew ==
    /\ many_loop.at # "loop"
    /\ scanner # Scanner_new
    /\ scanner' = Scanner_new
    /\ attempt' = [of |-> "new", before |-> Scanner_new, ran |-> Scanner_new,
                   value |-> "Ok"]
    /\ UNCHANGED <<many_loop, autoVars, classVars, synVars, partVars, fmtVars, exceptScan>>

NextAnchored == Anchored \/ ScannerNew
SpecAnchored == Init /\ [][NextAnchored]_vars

LeftValues == {"None", "Err", "RetryLater"}

\* C30: after anchored(f) with f returning a Left value the input position,
\* the location and the number of diagnostics are those before the call,
\* whatever f consumed or reported; with a Right value all f did is kept.
AnchoredRollsBack ==
    attempt.of = "anchored" =>
        IF attempt.value \in LeftValues
        THEN /\ scanner.input = attempt.before.input
             /\ scanner.location = attempt.before.location
             /\ Len(scanner.diagnostics) = Len(attempt.before.diagnostics)
        ELSE scanner = attempt.ran
AnchoredRollsBackWitness ==
    /\ attempt.of = "anchored"
    /\ attempt.value \in LeftValues
    /\ attempt.ran.input > attempt.before.input
    /\ attempt.ran.location > attempt.before.location
    /\ Len(attempt.ran.diagnostics) > Len(attempt.before.diagnostics)
    /\ attempt.before.input > 0
    /\ attempt.before.diagnostics # <<>>

\* the diagnostics reported before the call are the ones that stay
AnchoredKeepsOlder ==
    (attempt.of = "anchored" /\ attempt.value \in LeftValues) =>
        scanner.diagnostics = attempt.before.diagnostics

\* ---------------------------------------------------- Scanner::many
\* many(f, init, join) is called with a rule of some Either type
ManyCall ==
    /\ many_loop.at # "loop"
    /\ \E et \in EitherTypes : many_loop' = [at |-> "loop", et |-> et, turn |-> FALSE]
    /\ attempt' = [of |-> "call", before |-> scanner, ran |-> scanner, value |-> "Ok"]
    /\ UNCHANGED scanner
    /\ UNCHANGED <<autoVars, classVars, synVars, partVars, fmtVars, exceptScan>>

\* One turn of `while let Ok(x) = self.anchored(&mut f).into_result()`: f is
\* called through anchored; on Ok the value is joined and the loop goes
\* on, on Err many returns.  A successful call of f consumes a character.
ManyTurn ==
    /\ many_loop.at = "loop"
    /\ \E f \in {g \in Doings(scanner, many_loop.et) :
                    is_just(g.value) => g.consumed >= 1} :
         /\ AnchoredCall("many", many_loop.et, f)
         /\ many_loop' = [many_loop EXCEPT
                             !.at = IF into_result(f.value) = "Ok" THEN "loop"
                                    ELSE "returned",
                             !.turn = ~@]

NextMany == ManyCall \/ ManyTurn \/ ScannerNew
SpecMany == Init /\ [][NextMany]_vars
SpecManyFair == SpecMany /\ WF_vars(ManyTurn)

\* C29: many returns after finitely many calls of f, at the first call
\* that does not succeed, be it None, RetryLater or FailFast.
ManyTerminates == (many_loop.at = "loop") ~> (many_loop.at = "returned")

\* What holds: many returns when f is of type Option or Result, and for a
\* Result3 it returns at the first RetryLater; after a FailFast it calls
\* f again.
ManyTerminatesUnlessFailFast ==
    (many_loop.at = "loop" /\ many_loop.et # "Result3") ~> (many_loop.at = "returned")
ManyEndsAtLeft ==
    attempt.of = "many" =>
        (many_loop.at = "returned" <=> attempt.value \in LeftValues)
ManyGoesOnAfterFailFast ==
    (attempt.of = "many" /\ attempt.value = "FailFast") => many_loop.at = "loop"

====
